---- MODULE Spec2Model ----
(***************************************************************************)
(* Model of the append / upsert engines of the SharePoint Excel node:      *)
(* one invocation of execute (appendRows or upsertRows) against a remote   *)
(* workbook that is downloaded whole, edited in memory and uploaded whole. *)
(***************************************************************************)
EXTENDS Integers, Sequences, FiniteSets, TLC

(***************************************************************************)
(* Bounds of the model.                                                    *)
(***************************************************************************)
\* Largest number of input items of one invocation.
MaxItems == 2

\* Largest number of records resolved in one invocation (raw arrays share it).
MaxBatch == MaxItems

(***************************************************************************)
(* State.                                                                  *)
(***************************************************************************)
VARIABLES
  remote,        \* the workbook stored in the backend: sheet name -> rows
  remote0,       \* the stored workbook when the invocation started
  params,        \* the node parameters of the invocation
  pc,            \* where execute stands
  error,         \* the message of the error that ended the invocation, or ""
  workbook,      \* the workbook in memory (meaningful once loaded)
  headers,       \* headers[colNumber], Undefined where the array has a hole
  hasHeaders,
  headerMap,     \* header name -> column number
  keyColumns,
  existingRows,  \* upsert's index: composite key -> row number
  i,             \* index of the input item being processed (0-based)
  rowsToAdd,     \* the records of item i (rowsToUpsert in upsertRows)
  j,             \* position in rowsToAdd of the next record (1-based)
  totalRowsAdded,
  updatedCount,
  appendedCount,
  returnData,
  loadCalls,     \* calls of loadWorkbook
  saveCalls,     \* calls of saveWorkbook
  headerWrites,  \* times the header row was written
  itemWrites,    \* sheet rows written for the records of item i so far
  resolved,      \* the records resolved so far, in order
  log,           \* one entry per record processed, in order
  steps,         \* the steps execute has taken before and after the item loop, in order
  itemInput,     \* what the item last resolved carried: its json and parameters
  inputs,        \* the inputs of the items resolved so far in the invocation
  history        \* the invocations that ended before this one, oldest first

vars == << remote, remote0, params, pc, error, workbook, headers, hasHeaders,
           headerMap, keyColumns, existingRows, i, rowsToAdd, j,
           totalRowsAdded, updatedCount, appendedCount, returnData,
           loadCalls, saveCalls, headerWrites, itemWrites, resolved, log,
           steps, itemInput, inputs, history >>

(***************************************************************************)
(* JavaScript values.  A number is held by its canonical decimal rendering *)
(* so that String(1) and the string "1" can be told apart and compared.    *)
(***************************************************************************)
Null == [t |-> "null", v |-> ""]

Undefined == [t |-> "undefined", v |-> ""]

S(s) == [t |-> "string", v |-> s]

N(s) == [t |-> "number", v |-> s]

\* String(value)
JSString(x) ==
  CASE x.t = "null" -> "null"
    [] x.t = "undefined" -> "undefined"
    [] OTHER -> x.v

\* value ?? ''  followed by String(...)
KeyPart(x) == IF x.t \in {"null", "undefined"} THEN "" ELSE JSString(x)

\* s.trim() !== '' on the strings of the model
NonBlank(s) == s \notin {"", " ", "  "}

\* truthiness of a string: `if (h)`
Truthy(s) == s # ""

(***************************************************************************)
(* Records (RowData): an object as the sequence of its entries in          *)
(* insertion order, which is the order of Object.keys / Object.entries.    *)
(***************************************************************************)
E(k, val) == [k |-> k, v |-> val]

RecKeys(rec) == {rec[n].k : n \in 1..Len(rec)}

\* rowData[col]
Get(rec, col) ==
  IF col \in RecKeys(rec)
    THEN (CHOOSE e \in {rec[n] : n \in 1..Len(rec)} : e.k = col).v
    ELSE Undefined

(***************************************************************************)
(* Sheets: a sequence of rows, each row a function from the column numbers *)
(* to cell values, Null for an empty cell.                                 *)
(***************************************************************************)
ColNames == {"ID", "Name", "X"}

NCols == Cardinality(ColNames)

Cols == 1..NCols

BlankRow == [c \in Cols |-> Null]

Row3(a, b, c) == <<a, b, c>>

\* worksheet.getRow(n): rows beyond the extent are created blank
GetRowPad(sheet, n) ==
  IF n <= Len(sheet) THEN sheet
  ELSE sheet \o [m \in 1..(n - Len(sheet)) |-> BlankRow]

(***************************************************************************)
(* Inputs of the model: the records an item can carry, the workbooks the   *)
(* remote file can hold, and the parameters of an invocation.              *)
(***************************************************************************)
RecordPool ==
  { <<E("ID", S("1")), E("Name", S("x"))>>,
    <<E("Name", S("y")), E("ID", N("1"))>>,
    <<E("ID", S("2")), E("X", S("z"))>>,
    <<E("ID", S("")), E("Name", S("y"))>>,
    <<E("ID", Null), E("Name", S("x"))>>,
    <<E("Name", S("x|")), E("ID", S("1"))>>,
    << >> }

\* Sequences over `set` of length 0..n
RECURSIVE SeqsUpTo(_, _)
SeqsUpTo(set, n) ==
  IF n = 0 THEN { << >> }
  ELSE LET shorter == SeqsUpTo(set, n - 1)
       IN  shorter \cup {Append(q, e) : q \in {r \in shorter : Len(r) = n - 1}, e \in set}

SheetPool ==
  { << >>,
    << Row3(S("ID"), S("Name"), Null),
       Row3(S("1"), S("x"), Null),
       Row3(Null, S("y"), Null),
       Row3(S("01"), S("w"), Null) >>,
    << Row3(S("Name"), S("ID"), Null),
       Row3(S("x"), N("1"), Null),
       Row3(S("y"), S("1"), Null),
       Row3(S("x"), S(""), Null),
       Row3(S("x"), S("|1"), Null) >>,
    << Row3(Null, Null, S(" ")),
       Row3(S("ID"), S("Name"), Null),
       Row3(N("2"), S("q"), Null) >> }

WorkbookPool == {[n \in {"Sheet1"} |-> sh] : sh \in SheetPool}

DataModes == {"autoMap", "manual", "raw", "bogus"}

\* options.headerRow as the UI can give it; 0 stands for "not set"
HeaderRowOptions == {0, 2}

ParamPool ==
  [ op : {"appendRows", "upsertRows"},
    dataMode : DataModes,
    sheetName : {"Sheet1", "Gone"},
    headerRowOption : HeaderRowOptions,
    keyColumn : {"", "ID", "Zed"},
    matchingColumns : {<< >>, <<"ID">>, <<"Name", "ID">>, <<"Zed">>},
    nItems : 0..MaxItems ]

\* The parameters an invocation can tell apart: appendRows reads no key
\* parameter, manual mode reads matchingColumns and the other modes keyColumn.
RelevantParams ==
  { p \in ParamPool :
      /\ p.op = "appendRows" => p.keyColumn = "" /\ p.matchingColumns = << >>
      /\ (p.op = "upsertRows" /\ p.dataMode = "manual") => p.keyColumn = ""
      /\ (p.op = "upsertRows" /\ p.dataMode # "manual") => p.matchingColumns = << >> }

\* The rowData parameter of raw mode: a JSON text, held by what JSON.parse
\* makes of it.
RowDataTexts(room) ==
  {[valid |-> FALSE, isArray |-> FALSE, parsed |-> << >>]}
    \cup {[valid |-> TRUE, isArray |-> FALSE, parsed |-> r] :
            r \in {x \in RecordPool : room >= 1}}
    \cup {[valid |-> TRUE, isArray |-> TRUE, parsed |-> q] : q \in SeqsUpTo(RecordPool, room)}

NoRowData == [valid |-> FALSE, isArray |-> FALSE, parsed |-> << >>]

\* columns.value of manual mode: null, or an object
ColumnValues == {[isNull |-> TRUE, value |-> << >>]}
                  \cup {[isNull |-> FALSE, value |-> r] : r \in RecordPool}

NoColumns == [isNull |-> TRUE, value |-> << >>]

\* What item i carries, as far as the data mode reads it: item.json, the
\* columns parameter and the rowData parameter.
ItemInputs(mode, room) ==
  CASE mode = "autoMap" ->
         {[json |-> r, columns |-> NoColumns, rowData |-> NoRowData] : r \in RecordPool}
    [] mode = "manual" ->
         {[json |-> << >>, columns |-> c, rowData |-> NoRowData] : c \in ColumnValues}
    [] mode = "raw" ->
         {[json |-> << >>, columns |-> NoColumns, rowData |-> t] : t \in RowDataTexts(room)}
    [] OTHER ->
         {[json |-> << >>, columns |-> NoColumns, rowData |-> NoRowData]}

\* Before the first item is resolved
NoInput == [json |-> << >>, columns |-> NoColumns, rowData |-> NoRowData]

(***************************************************************************)
(* The pure parts of the two engines.                                      *)
(***************************************************************************)
Max(set) == CHOOSE m \in set : \A n \in set : n <= m

RECURSIVE Join(_)
\* parts.join('|')
Join(parts) ==
  IF Len(parts) = 0 THEN ""
  ELSE IF Len(parts) = 1 THEN parts[1]
  ELSE parts[1] \o "|" \o Join(Tail(parts))

Fail(msg) == [ok |-> FALSE, rows |-> << >>, err |-> msg]

Rows(recs) == [ok |-> TRUE, rows |-> recs, err |-> ""]

\* Variant of getRowData: a JSON array is taken for one record list of its
\* first element only.
getRowDataFirstOfArray(input, dataMode) ==
  CASE dataMode = "autoMap" -> Rows(<<input.json>>)
    [] dataMode = "manual" ->
         IF input.columns.isNull \/ Len(input.columns.value) = 0
           THEN Fail("No column values provided in manual mapping mode")
           ELSE Rows(<<input.columns.value>>)
    [] dataMode = "raw" ->
         IF ~input.rowData.valid
           THEN Fail("Invalid JSON in Row Data")
           ELSE IF input.rowData.isArray
                  THEN IF Len(input.rowData.parsed) <= 1
                         THEN Rows(input.rowData.parsed)
                         ELSE Rows(<<input.rowData.parsed[1]>>)
                  ELSE Rows(<<input.rowData.parsed>>)
    [] OTHER -> Fail("Unknown data mode: " \o dataMode)

\* getRowData(context, itemIndex, item, dataMode)
getRowData(input, dataMode) ==
  CASE dataMode = "autoMap" -> Rows(<<input.json>>)
    [] dataMode = "manual" ->
         IF input.columns.isNull \/ Len(input.columns.value) = 0
           THEN Fail("No column values provided in manual mapping mode")
           ELSE Rows(<<input.columns.value>>)
    [] dataMode = "raw" ->
         IF ~input.rowData.valid
           THEN Fail("Invalid JSON in Row Data")
           ELSE IF input.rowData.isArray
                  THEN Rows(input.rowData.parsed)
                  ELSE Rows(<<input.rowData.parsed>>)
    [] OTHER -> Fail("Unknown data mode: " \o dataMode)

\* getKeyColumns(context, dataMode)
getKeyColumns(p) ==
  IF p.dataMode = "manual"
    THEN IF Len(p.matchingColumns) = 0
           THEN Fail("At least one matching column must be selected in manual mode")
           ELSE Rows(p.matchingColumns)
    ELSE IF p.keyColumn = ""
           THEN Fail("Key Column is required for upsert operation")
           ELSE Rows(<<p.keyColumn>>)

\* Variant of createKey: a key value that reads as a number is brought to
\* the canonical rendering of that number first.
createKeyNormalising(rowData, keyCols) ==
  Join([n \in 1..Len(keyCols) |->
          IF KeyPart(Get(rowData, keyCols[n])) = "01"
            THEN "1"
            ELSE KeyPart(Get(rowData, keyCols[n]))])

\* Variant of createKey: the key parts are taken from the record's entries in
\* insertion order, one per key column.
createKeyByPosition(rowData, keyCols) ==
  Join([n \in 1..Len(keyCols) |->
          IF n <= Len(rowData) THEN KeyPart(rowData[n].v) ELSE ""])

\* createKey(rowData, keyColumns)
createKey(rowData, keyCols) ==
  Join([n \in 1..Len(keyCols) |-> KeyPart(Get(rowData, keyCols[n]))])

\* keyColumns.map(() => '').join('|')
EmptyKey(keyCols) == Join([n \in 1..Len(keyCols) |-> ""])

\* headerRowData.eachCell({ includeEmpty: false }, ...): headers[colNumber]
ReadHeaders(row) ==
  [c \in Cols |-> IF row[c] = Null THEN Undefined ELSE S(JSString(row[c]))]

\* Variant of HasHeaders: the headers read from the sheet are not looked at.
HasHeadersNever(hdrs) == FALSE

\* headers.some((h) => h && h.trim() !== '')
HasHeaders(hdrs) ==
  \E c \in Cols : hdrs[c] # Undefined /\ Truthy(hdrs[c].v) /\ NonBlank(hdrs[c].v)

\* headers.forEach((h, idx) => { if (h) headerMap[h] = idx; })
BuildHeaderMap(hdrs) ==
  LET named == {c \in Cols : hdrs[c] # Undefined /\ Truthy(hdrs[c].v)}
  IN  [h \in {hdrs[c].v : c \in named} |-> Max({c \in named : hdrs[c].v = h})]

\* keys.forEach((key, idx) => { ...; headerMap[key] = idx + 1 })
KeysHeaderMap(rec) ==
  [h \in RecKeys(rec) |-> Max({n \in 1..Len(rec) : rec[n].k = h})]

\* keys.forEach((key, idx) => { headerRowData.getCell(idx + 1).value = key; ... })
WriteHeaderCells(row, rec) ==
  [c \in Cols |-> IF c <= Len(rec) THEN S(rec[c].k) ELSE row[c]]

\* keys.forEach((key, idx) => { ...; headers[idx + 1] = key; ... })
WriteHeaders(hdrs, rec) ==
  [c \in Cols |-> IF c <= Len(rec) THEN S(rec[c].k) ELSE hdrs[c]]

\* Variant of EntriesFor: a key that is no header lands in the last column.
EntriesForSpilling(rec, hmap, c) ==
  {n \in 1..Len(rec) :
     \/ rec[n].k \in DOMAIN hmap /\ hmap[rec[n].k] = c
     \/ rec[n].k \notin DOMAIN hmap /\ c = NCols}

\* The entries of a record that land in column c
EntriesFor(rec, hmap, c) ==
  {n \in 1..Len(rec) : rec[n].k \in DOMAIN hmap /\ hmap[rec[n].k] = c}

\* Variant of NewRow: a column the record omits takes the value of the row above.
NewRowCarryingOver(rec, hmap) ==
  [c \in Cols |->
     IF EntriesFor(rec, hmap, c) = {}
       THEN workbook[params.sheetName][Len(workbook[params.sheetName])][c]
       ELSE rec[Max(EntriesFor(rec, hmap, c))].v]

\* newRow[colIdx] = value for every entry whose key is a header, then
\* worksheet.addRow(newRow): a cell is set where newRow holds a value
NewRow(rec, hmap) ==
  [c \in Cols |->
     IF EntriesFor(rec, hmap, c) = {} THEN Null
     ELSE rec[Max(EntriesFor(rec, hmap, c))].v]

\* Variant of UpdateRow: the matched row is replaced by the record's row, so
\* a column the record omits is blanked.
UpdateRowReplacing(row, rec, hmap) == NewRow(rec, hmap)

\* Variant of UpdateRow: a written value is stored as text followed by a space.
UpdateRowPadding(row, rec, hmap) ==
  [c \in Cols |->
     IF EntriesFor(rec, hmap, c) = {} THEN row[c]
     ELSE S(KeyPart(rec[Max(EntriesFor(rec, hmap, c))].v) \o " ")]

\* row.getCell(colIdx).value = value for every entry whose key is a header
UpdateRow(row, rec, hmap) ==
  [c \in Cols |->
     IF EntriesFor(rec, hmap, c) = {} THEN row[c]
     ELSE rec[Max(EntriesFor(rec, hmap, c))].v]

\* rowData[keyCol] = cell.value for the key columns of an existing row
KeyCells(row, hmap, keyCols) ==
  [n \in 1..Len(keyCols) |-> E(keyCols[n], row[hmap[keyCols[n]]])]

\* Variant of Indexable: the check for an empty key is left out.
IndexableAlways(key, keyCols) == TRUE

\* if (key && key !== keyColumns.map(() => '').join('|'))
Indexable(key, keyCols) == key # "" /\ key # EmptyKey(keyCols)

\* Variant of BuildIndex: an earlier row keeps its key against a later one.
BuildIndexFirstWins(sheet, hrow, hmap, keyCols) ==
  LET rowNums == (hrow + 1)..Len(sheet)
      keyOf(r) == createKey(KeyCells(sheet[r], hmap, keyCols), keyCols)
      indexed == {r \in rowNums : Indexable(keyOf(r), keyCols)}
  IN  [k \in {keyOf(r) : r \in indexed} |->
         CHOOSE r \in indexed : keyOf(r) = k /\ \A q \in indexed : keyOf(q) = k => r <= q]

\* The loop that fills existingRows: a later row replaces an earlier one
BuildIndex(sheet, hrow, hmap, keyCols) ==
  LET rowNums == (hrow + 1)..Len(sheet)
      keyOf(r) == createKey(KeyCells(sheet[r], hmap, keyCols), keyCols)
      indexed == {r \in rowNums : Indexable(keyOf(r), keyCols)}
  IN  [k \in {keyOf(r) : r \in indexed} |-> Max({r \in indexed : keyOf(r) = k})]

\* Variant of MissingKeyColumn: only an absent key counts, null is taken as a value.
MissingKeyColumnUndefinedOnly(rec, keyCols) ==
  LET bad == {n \in 1..Len(keyCols) : Get(rec, keyCols[n]) = Undefined}
  IN  IF bad = {} THEN "" ELSE keyCols[CHOOSE n \in bad : \A m \in bad : n <= m]

\* The first key column the record has no value for, or "" when there is none
MissingKeyColumn(rec, keyCols) ==
  LET bad == {n \in 1..Len(keyCols) : Get(rec, keyCols[n]) \in {Undefined, Null}}
  IN  IF bad = {} THEN "" ELSE keyCols[CHOOSE n \in bad : \A m \in bad : n <= m]

\* The first key column that is no header, or "" when every one is
UnknownKeyColumn(hmap, keyCols) ==
  LET bad == {n \in 1..Len(keyCols) : keyCols[n] \notin DOMAIN hmap}
  IN  IF bad = {} THEN "" ELSE keyCols[CHOOSE n \in bad : \A m \in bad : n <= m]

(***************************************************************************)
(* The invocation.                                                         *)
(***************************************************************************)
\* const headerRow = options.headerRow || 1
headerRow == IF params.headerRowOption = 0 THEN 1 ELSE params.headerRowOption

worksheet == workbook[params.sheetName]

NoHeaders == [c \in Cols |-> Undefined]

Init ==
  /\ remote \in WorkbookPool
  /\ remote0 = remote
  /\ params \in RelevantParams
  /\ pc = "start"
  /\ error = ""
  /\ workbook = << >>
  /\ headers = NoHeaders
  /\ hasHeaders = FALSE
  /\ headerMap = << >>
  /\ keyColumns = << >>
  /\ existingRows = << >>
  /\ i = 0
  /\ rowsToAdd = << >>
  /\ j = 1
  /\ totalRowsAdded = 0
  /\ updatedCount = 0
  /\ appendedCount = 0
  /\ returnData = << >>
  /\ loadCalls = 0
  /\ saveCalls = 0
  /\ headerWrites = 0
  /\ itemWrites = 0
  /\ resolved = << >>
  /\ log = << >>
  /\ steps = << >>
  /\ itemInput = NoInput
  /\ inputs = << >>
  /\ history = << >>

(***************************************************************************)
(* The steps of execute.  An error ends the invocation: nothing after the  *)
(* throw runs.                                                             *)
(***************************************************************************)
\* `Graph API request failed: ${error.message}` of the download
DownloadFailed == "Graph API request failed: download"

\* `Graph API request failed: ${error.message}` of the upload
UploadFailed == "Graph API request failed: upload"

SheetNotFound(name) == "Sheet \"" \o name \o "\" not found in workbook"

KeyColumnNotFound(col) == "Key column \"" \o col \o "\" not found in headers"

MissingKeyValue(col) == "Row data missing key column \"" \o col \o "\" value"

Throw(msg) ==
  /\ pc' = "failed"
  /\ error' = msg

\* appendRows reads its parameters and goes on to the download.
StartAppend ==
  /\ pc = "start"
  /\ params.op = "appendRows"
  /\ pc' = "load"
  /\ UNCHANGED << remote, remote0, params, error, workbook, headers, hasHeaders,
                  headerMap, keyColumns, existingRows, i, rowsToAdd, j,
                  totalRowsAdded, updatedCount, appendedCount, returnData,
                  loadCalls, saveCalls, headerWrites, itemWrites, resolved, log,
                  steps, itemInput, inputs, history >>

\* Variant of StartUpsert: the workbook is downloaded first and the key
\* columns are resolved after it.
StartUpsertLoadingFirst ==
  /\ pc = "start"
  /\ params.op = "upsertRows"
  /\ loadCalls' = loadCalls + 1
  /\ workbook' = remote
  /\ steps' = steps \o <<"loadWorkbook", "getKeyColumns">>
  /\ LET got == getKeyColumns(params)
     IN  IF got.ok
           THEN /\ keyColumns' = got.rows
                /\ pc' = "sheet"
                /\ error' = error
           ELSE /\ Throw(got.err)
                /\ keyColumns' = keyColumns
  /\ UNCHANGED << remote, remote0, params, headers, hasHeaders,
                  headerMap, existingRows, i, rowsToAdd, j,
                  totalRowsAdded, updatedCount, appendedCount, returnData,
                  saveCalls, headerWrites, itemWrites, resolved, log,
                  itemInput, inputs, history >>

\* upsertRows reads its parameters and resolves the key columns.
StartUpsert ==
  /\ pc = "start"
  /\ params.op = "upsertRows"
  /\ LET got == getKeyColumns(params)
     IN  IF got.ok
           THEN /\ keyColumns' = got.rows
                /\ pc' = "load"
                /\ error' = error
           ELSE /\ Throw(got.err)
                /\ keyColumns' = keyColumns
  /\ steps' = Append(steps, "getKeyColumns")
  /\ UNCHANGED << remote, remote0, params, workbook, headers, hasHeaders,
                  headerMap, existingRows, i, rowsToAdd, j,
                  totalRowsAdded, updatedCount, appendedCount, returnData,
                  loadCalls, saveCalls, headerWrites, itemWrites, resolved, log,
                  itemInput, inputs, history >>

\* await loadWorkbook(...): the download delivers the stored workbook.
LoadWorkbook ==
  /\ pc = "load"
  /\ loadCalls' = loadCalls + 1
  /\ workbook' = remote
  /\ pc' = "sheet"
  /\ steps' = Append(steps, "loadWorkbook")
  /\ UNCHANGED << remote, remote0, params, error, headers, hasHeaders,
                  headerMap, keyColumns, existingRows, i, rowsToAdd, j,
                  totalRowsAdded, updatedCount, appendedCount, returnData,
                  saveCalls, headerWrites, itemWrites, resolved, log,
                  itemInput, inputs, history >>

\* await loadWorkbook(...): the download fails.
LoadWorkbookFails ==
  /\ pc = "load"
  /\ loadCalls' = loadCalls + 1
  /\ Throw(DownloadFailed)
  /\ steps' = Append(steps, "loadWorkbook")
  /\ UNCHANGED << remote, remote0, params, workbook, headers, hasHeaders,
                  headerMap, keyColumns, existingRows, i, rowsToAdd, j,
                  totalRowsAdded, updatedCount, appendedCount, returnData,
                  saveCalls, headerWrites, itemWrites, resolved, log,
                  itemInput, inputs, history >>

\* getWorksheet(workbook, sheetName, this, 0)
GetWorksheet ==
  /\ pc = "sheet"
  /\ IF params.sheetName \in DOMAIN workbook
       THEN pc' = "headers" /\ error' = error
       ELSE Throw(SheetNotFound(params.sheetName))
  /\ steps' = Append(steps, "getWorksheet")
  /\ UNCHANGED << remote, remote0, params, workbook, headers, hasHeaders,
                  headerMap, keyColumns, existingRows, i, rowsToAdd, j,
                  totalRowsAdded, updatedCount, appendedCount, returnData,
                  loadCalls, saveCalls, headerWrites, itemWrites, resolved, log,
                  itemInput, inputs, history >>

\* appendRows: the header row is read and hasHeaders computed.
AppendReadHeaders ==
  /\ pc = "headers"
  /\ params.op = "appendRows"
  /\ LET sheet == GetRowPad(worksheet, headerRow)
         hdrs == ReadHeaders(sheet[headerRow])
     IN  /\ workbook' = [workbook EXCEPT ![params.sheetName] = sheet]
         /\ headers' = hdrs
         /\ hasHeaders' = HasHeaders(hdrs)
  /\ pc' = "item"
  /\ steps' = Append(steps, "readHeaders")
  /\ UNCHANGED << remote, remote0, params, error,
                  headerMap, keyColumns, existingRows, i, rowsToAdd, j,
                  totalRowsAdded, updatedCount, appendedCount, returnData,
                  loadCalls, saveCalls, headerWrites, itemWrites, resolved, log,
                  itemInput, inputs, history >>

\* upsertRows: the header row is read and the header map built.
UpsertReadHeaders ==
  /\ pc = "headers"
  /\ params.op = "upsertRows"
  /\ LET sheet == GetRowPad(worksheet, headerRow)
         hdrs == ReadHeaders(sheet[headerRow])
     IN  /\ workbook' = [workbook EXCEPT ![params.sheetName] = sheet]
         /\ headers' = hdrs
         /\ headerMap' = BuildHeaderMap(hdrs)
  /\ pc' = "validate"
  /\ steps' = Append(steps, "readHeaders")
  /\ UNCHANGED << remote, remote0, params, error, hasHeaders,
                  keyColumns, existingRows, i, rowsToAdd, j,
                  totalRowsAdded, updatedCount, appendedCount, returnData,
                  loadCalls, saveCalls, headerWrites, itemWrites, resolved, log,
                  itemInput, inputs, history >>

\* Variant of ValidateKeyColumns: a header row without any header is let through.
ValidateKeyColumnsUnlessNoHeader ==
  /\ pc = "validate"
  /\ LET bad == UnknownKeyColumn(headerMap, keyColumns)
     IN  IF bad = "" \/ DOMAIN headerMap = {}
           THEN pc' = "index" /\ error' = error
           ELSE Throw(KeyColumnNotFound(bad))
  /\ steps' = Append(steps, "validateKeyColumns")
  /\ UNCHANGED << remote, remote0, params, workbook, headers, hasHeaders,
                  headerMap, keyColumns, existingRows, i, rowsToAdd, j,
                  totalRowsAdded, updatedCount, appendedCount, returnData,
                  loadCalls, saveCalls, headerWrites, itemWrites, resolved, log,
                  itemInput, inputs, history >>

\* upsertRows: every key column must be a header.
ValidateKeyColumns ==
  /\ pc = "validate"
  /\ LET bad == UnknownKeyColumn(headerMap, keyColumns)
     IN  IF bad = ""
           THEN pc' = "index" /\ error' = error
           ELSE Throw(KeyColumnNotFound(bad))
  /\ steps' = Append(steps, "validateKeyColumns")
  /\ UNCHANGED << remote, remote0, params, workbook, headers, hasHeaders,
                  headerMap, keyColumns, existingRows, i, rowsToAdd, j,
                  totalRowsAdded, updatedCount, appendedCount, returnData,
                  loadCalls, saveCalls, headerWrites, itemWrites, resolved, log,
                  itemInput, inputs, history >>

\* Variant of IndexExistingRows: the scan stops one row short of the last.
IndexExistingRowsShortByOne ==
  /\ pc = "index"
  /\ existingRows' =
       BuildIndex(SubSeq(worksheet, 1, Max({Len(worksheet) - 1, headerRow})),
                  headerRow, headerMap, keyColumns)
  /\ pc' = "item"
  /\ steps' = Append(steps, "scanRows")
  /\ UNCHANGED << remote, remote0, params, error, workbook, headers, hasHeaders,
                  headerMap, keyColumns, i, rowsToAdd, j,
                  totalRowsAdded, updatedCount, appendedCount, returnData,
                  loadCalls, saveCalls, headerWrites, itemWrites, resolved, log,
                  itemInput, inputs, history >>

\* upsertRows: the index of the existing rows by composite key.
IndexExistingRows ==
  /\ pc = "index"
  /\ existingRows' = BuildIndex(worksheet, headerRow, headerMap, keyColumns)
  /\ pc' = "item"
  /\ steps' = Append(steps, "scanRows")
  /\ UNCHANGED << remote, remote0, params, error, workbook, headers, hasHeaders,
                  headerMap, keyColumns, i, rowsToAdd, j,
                  totalRowsAdded, updatedCount, appendedCount, returnData,
                  loadCalls, saveCalls, headerWrites, itemWrites, resolved, log,
                  itemInput, inputs, history >>

\* Records still to be had within the bound of the model.
Room == MaxBatch - Len(resolved)

\* items[i] as execute receives it: any input of the pools; an invocation
\* that repeats the one before it receives that invocation's items again.
Items ==
  IF history # << >> /\ history[Len(history)].again
    THEN {history[Len(history)].inputs[i + 1]}
    ELSE ItemInputs(params.dataMode, Room)

LogEntry(rec, kind, row, key) ==
  [item |-> i, rec |-> rec, kind |-> kind, row |-> row, key |-> key]

\* appendRows, top of the item loop: the records of item i are resolved; for
\* item 0 the header map is set up, and the headers created when there are none.
AppendResolveItem ==
  /\ pc = "item"
  /\ params.op = "appendRows"
  /\ i < params.nItems
  /\ \E input \in Items :
       LET got == getRowData(input, params.dataMode)
       IN  /\ itemInput' = input
           /\ inputs' = Append(inputs, input)
           /\ IF ~got.ok
                THEN /\ Throw(got.err)
                     /\ itemWrites' = 0
                     /\ UNCHANGED << workbook, headers, headerMap, rowsToAdd, j,
                                     headerWrites, resolved >>
                ELSE /\ rowsToAdd' = got.rows
                     /\ resolved' = resolved \o got.rows
                     /\ j' = 1
                     /\ itemWrites' = 0
                     /\ pc' = "rows"
                     /\ error' = error
                     /\ IF ~hasHeaders /\ i = 0 /\ Len(got.rows) > 0
                          THEN /\ workbook' =
                                    [workbook EXCEPT ![params.sheetName][headerRow] =
                                       WriteHeaderCells(@, got.rows[1])]
                               /\ headers' = WriteHeaders(headers, got.rows[1])
                               /\ headerMap' = KeysHeaderMap(got.rows[1])
                               /\ headerWrites' = headerWrites + 1
                          ELSE IF i = 0
                                 THEN /\ headerMap' = BuildHeaderMap(headers)
                                      /\ UNCHANGED << workbook, headers, headerWrites >>
                                 ELSE UNCHANGED << workbook, headers, headerMap,
                                                   headerWrites >>
  /\ UNCHANGED << remote, remote0, params, hasHeaders, keyColumns, existingRows,
                  i, totalRowsAdded, updatedCount, appendedCount, returnData,
                  loadCalls, saveCalls, log, steps, history >>

\* Variant of AppendRecord: a record none of whose keys is a header adds no row.
AppendRecordSkippingBlank ==
  /\ pc = "rows"
  /\ params.op = "appendRows"
  /\ j <= Len(rowsToAdd)
  /\ LET rowData == rowsToAdd[j]
     IN  /\ workbook' = IF NewRow(rowData, headerMap) = BlankRow
                          THEN workbook
                          ELSE [workbook EXCEPT ![params.sheetName] =
                                  Append(@, NewRow(rowData, headerMap))]
         /\ log' = Append(log, LogEntry(rowData, "append", Len(worksheet) + 1, ""))
  /\ totalRowsAdded' = totalRowsAdded + 1
  /\ itemWrites' = itemWrites + 1
  /\ j' = j + 1
  /\ UNCHANGED << remote, remote0, params, pc, error, headers, hasHeaders,
                  headerMap, keyColumns, existingRows, i, rowsToAdd,
                  updatedCount, appendedCount, returnData,
                  loadCalls, saveCalls, headerWrites, resolved, steps,
                  itemInput, inputs, history >>

\* appendRows, one turn of the loop over the records of item i.
AppendRecord ==
  /\ pc = "rows"
  /\ params.op = "appendRows"
  /\ j <= Len(rowsToAdd)
  /\ LET rowData == rowsToAdd[j]
     IN  /\ workbook' = [workbook EXCEPT ![params.sheetName] =
                           Append(@, NewRow(rowData, headerMap))]
         /\ log' = Append(log, LogEntry(rowData, "append", Len(worksheet) + 1, ""))
  /\ totalRowsAdded' = totalRowsAdded + 1
  /\ itemWrites' = itemWrites + 1
  /\ j' = j + 1
  /\ UNCHANGED << remote, remote0, params, pc, error, headers, hasHeaders,
                  headerMap, keyColumns, existingRows, i, rowsToAdd,
                  updatedCount, appendedCount, returnData,
                  loadCalls, saveCalls, headerWrites, resolved, steps,
                  itemInput, inputs, history >>

\* upsertRows, top of the item loop: the records of item i are resolved.
UpsertResolveItem ==
  /\ pc = "item"
  /\ params.op = "upsertRows"
  /\ i < params.nItems
  /\ \E input \in Items :
       LET got == getRowData(input, params.dataMode)
       IN  /\ itemInput' = input
           /\ inputs' = Append(inputs, input)
           /\ IF ~got.ok
                THEN /\ Throw(got.err)
                     /\ itemWrites' = 0
                     /\ UNCHANGED << rowsToAdd, j, resolved >>
                ELSE /\ rowsToAdd' = got.rows
                     /\ resolved' = resolved \o got.rows
                     /\ j' = 1
                     /\ itemWrites' = 0
                     /\ pc' = "rows"
                     /\ error' = error
  /\ UNCHANGED << remote, remote0, params, workbook, headers, hasHeaders,
                  headerMap, keyColumns, existingRows, i,
                  totalRowsAdded, updatedCount, appendedCount, returnData,
                  loadCalls, saveCalls, headerWrites, log, steps, history >>

\* Variant of UpsertRecord: an appended row is entered in the index.
UpsertRecordReindexing ==
  /\ pc = "rows"
  /\ params.op = "upsertRows"
  /\ j <= Len(rowsToAdd)
  /\ LET rowData == rowsToAdd[j]
         missing == MissingKeyColumn(rowData, keyColumns)
         key == createKey(rowData, keyColumns)
     IN  IF missing # ""
           THEN /\ Throw(MissingKeyValue(missing))
                /\ UNCHANGED << workbook, updatedCount, appendedCount, itemWrites,
                                j, log, existingRows >>
           ELSE /\ UNCHANGED << pc, error >>
                /\ itemWrites' = itemWrites + 1
                /\ j' = j + 1
                /\ IF key \in DOMAIN existingRows
                     THEN /\ workbook' =
                               [workbook EXCEPT ![params.sheetName][existingRows[key]] =
                                  UpdateRow(@, rowData, headerMap)]
                          /\ updatedCount' = updatedCount + 1
                          /\ appendedCount' = appendedCount
                          /\ existingRows' = existingRows
                          /\ log' = Append(log,
                               LogEntry(rowData, "update", existingRows[key], key))
                     ELSE /\ workbook' = [workbook EXCEPT ![params.sheetName] =
                                            Append(@, NewRow(rowData, headerMap))]
                          /\ appendedCount' = appendedCount + 1
                          /\ updatedCount' = updatedCount
                          /\ existingRows' = (key :> (Len(worksheet) + 1)) @@ existingRows
                          /\ log' = Append(log,
                               LogEntry(rowData, "append", Len(worksheet) + 1, key))
  /\ UNCHANGED << remote, remote0, params, headers, hasHeaders,
                  headerMap, keyColumns, i, rowsToAdd,
                  totalRowsAdded, returnData,
                  loadCalls, saveCalls, headerWrites, resolved, steps,
                  itemInput, inputs, history >>

\* upsertRows, one turn of the loop over the records of item i: the key
\* values are validated, then the matched row is updated or a row appended.
UpsertRecord ==
  /\ pc = "rows"
  /\ params.op = "upsertRows"
  /\ j <= Len(rowsToAdd)
  /\ LET rowData == rowsToAdd[j]
         missing == MissingKeyColumn(rowData, keyColumns)
         key == createKey(rowData, keyColumns)
     IN  IF missing # ""
           THEN /\ Throw(MissingKeyValue(missing))
                /\ UNCHANGED << workbook, updatedCount, appendedCount, itemWrites,
                                j, log >>
           ELSE /\ UNCHANGED << pc, error >>
                /\ itemWrites' = itemWrites + 1
                /\ j' = j + 1
                /\ IF key \in DOMAIN existingRows
                     THEN /\ workbook' =
                               [workbook EXCEPT ![params.sheetName][existingRows[key]] =
                                  UpdateRow(@, rowData, headerMap)]
                          /\ updatedCount' = updatedCount + 1
                          /\ appendedCount' = appendedCount
                          /\ log' = Append(log,
                               LogEntry(rowData, "update", existingRows[key], key))
                     ELSE /\ workbook' = [workbook EXCEPT ![params.sheetName] =
                                            Append(@, NewRow(rowData, headerMap))]
                          /\ appendedCount' = appendedCount + 1
                          /\ updatedCount' = updatedCount
                          /\ log' = Append(log,
                               LogEntry(rowData, "append", Len(worksheet) + 1, key))
  /\ UNCHANGED << remote, remote0, params, headers, hasHeaders,
                  headerMap, keyColumns, existingRows, i, rowsToAdd,
                  totalRowsAdded, returnData,
                  loadCalls, saveCalls, headerWrites, resolved, steps,
                  itemInput, inputs, history >>

\* Variant of NextItem: the workbook is uploaded at the end of every item.
NextItemSavingEachItem ==
  /\ pc = "rows"
  /\ j > Len(rowsToAdd)
  /\ i' = i + 1
  /\ pc' = "item"
  /\ saveCalls' = saveCalls + 1
  /\ remote' = workbook
  /\ UNCHANGED << remote0, params, error, workbook, headers, hasHeaders,
                  headerMap, keyColumns, existingRows, rowsToAdd, j,
                  totalRowsAdded, updatedCount, appendedCount, returnData,
                  loadCalls, headerWrites, itemWrites, resolved, log, steps,
                  itemInput, inputs, history >>

\* Variant of NextItem: every item makes its own round trip, the workbook is
\* uploaded at the end of the item and downloaded again for the next one.
NextItemRoundTrip ==
  /\ pc = "rows"
  /\ j > Len(rowsToAdd)
  /\ i' = i + 1
  /\ pc' = "item"
  /\ saveCalls' = saveCalls + 1
  /\ remote' = workbook
  /\ loadCalls' = loadCalls + 1
  /\ UNCHANGED << remote0, params, error, workbook, headers, hasHeaders,
                  headerMap, keyColumns, existingRows, rowsToAdd, j,
                  totalRowsAdded, updatedCount, appendedCount, returnData,
                  headerWrites, itemWrites, resolved, log, steps, itemInput, inputs, history >>

\* The records of item i are exhausted: i++.
NextItem ==
  /\ pc = "rows"
  /\ j > Len(rowsToAdd)
  /\ i' = i + 1
  /\ pc' = "item"
  /\ UNCHANGED << remote, remote0, params, error, workbook, headers, hasHeaders,
                  headerMap, keyColumns, existingRows, rowsToAdd, j,
                  totalRowsAdded, updatedCount, appendedCount, returnData,
                  loadCalls, saveCalls, headerWrites, itemWrites, resolved, log,
                  steps, itemInput, inputs, history >>

\* Variant of Result: rows are counted as if every item held one record.
ResultCountingItems ==
  IF params.op = "appendRows"
    THEN [success |-> TRUE, rowsAdded |-> totalRowsAdded, sheet |-> params.sheetName]
    ELSE [success |-> TRUE, rowsUpdated |-> updatedCount,
          rowsAppended |-> params.nItems - updatedCount, sheet |-> params.sheetName]

\* The result item pushed after the upload
Result ==
  IF params.op = "appendRows"
    THEN [success |-> TRUE, rowsAdded |-> totalRowsAdded, sheet |-> params.sheetName]
    ELSE [success |-> TRUE, rowsUpdated |-> updatedCount,
          rowsAppended |-> appendedCount, sheet |-> params.sheetName]

\* await saveWorkbook(...) after the item loop, then the result item.
SaveWorkbook ==
  /\ pc = "item"
  /\ i >= params.nItems
  /\ saveCalls' = saveCalls + 1
  /\ remote' = workbook
  /\ returnData' = Append(returnData, Result)
  /\ pc' = "done"
  /\ steps' = Append(steps, "saveWorkbook")
  /\ UNCHANGED << remote0, params, error, workbook, headers, hasHeaders,
                  headerMap, keyColumns, existingRows, i, rowsToAdd, j,
                  totalRowsAdded, updatedCount, appendedCount,
                  loadCalls, headerWrites, itemWrites, resolved, log,
                  itemInput, inputs, history >>

\* Variant of SaveWorkbookFails: the failed upload is tried a second time
\* and goes through.
SaveWorkbookFailsThenRetries ==
  /\ pc = "item"
  /\ i >= params.nItems
  /\ saveCalls' = saveCalls + 2
  /\ remote' = workbook
  /\ returnData' = Append(returnData, Result)
  /\ pc' = "done"
  /\ steps' = steps \o << "saveWorkbook", "saveWorkbook" >>
  /\ UNCHANGED << remote0, params, error, workbook, headers, hasHeaders,
                  headerMap, keyColumns, existingRows, i, rowsToAdd, j,
                  totalRowsAdded, updatedCount, appendedCount,
                  loadCalls, headerWrites, itemWrites, resolved, log,
                  itemInput, inputs, history >>

\* await saveWorkbook(...): the upload fails and the stored file stays as it was.
SaveWorkbookFails ==
  /\ pc = "item"
  /\ i >= params.nItems
  /\ saveCalls' = saveCalls + 1
  /\ Throw(UploadFailed)
  /\ steps' = Append(steps, "saveWorkbook")
  /\ UNCHANGED << remote, remote0, params, workbook, headers, hasHeaders,
                  headerMap, keyColumns, existingRows, i, rowsToAdd, j,
                  totalRowsAdded, updatedCount, appendedCount, returnData,
                  loadCalls, headerWrites, itemWrites, resolved, log,
                  itemInput, inputs, history >>

Next ==
  \/ StartAppend
  \/ StartUpsert
  \/ LoadWorkbook
  \/ LoadWorkbookFails
  \/ GetWorksheet
  \/ AppendReadHeaders
  \/ UpsertReadHeaders
  \/ ValidateKeyColumns
  \/ IndexExistingRows
  \/ AppendResolveItem
  \/ AppendRecord
  \/ UpsertResolveItem
  \/ UpsertRecord
  \/ NextItem
  \/ SaveWorkbook
  \/ SaveWorkbookFails

Spec == Init /\ [][Next]_vars

\* What an invocation that has ended leaves to those after it
Ended(again) ==
  [params |-> params, inputs |-> inputs, resolved |-> resolved, log |-> log,
   returnData |-> returnData, error |-> error, before |-> remote0,
   after |-> remote, again |-> again]

\* execute starts anew: the locals of the invocation before are gone.
Fresh ==
  /\ error' = ""
  /\ workbook' = << >>
  /\ headers' = NoHeaders
  /\ hasHeaders' = FALSE
  /\ headerMap' = << >>
  /\ keyColumns' = << >>
  /\ existingRows' = << >>
  /\ i' = 0
  /\ rowsToAdd' = << >>
  /\ j' = 1
  /\ totalRowsAdded' = 0
  /\ updatedCount' = 0
  /\ appendedCount' = 0
  /\ returnData' = << >>
  /\ loadCalls' = 0
  /\ saveCalls' = 0
  /\ headerWrites' = 0
  /\ itemWrites' = 0
  /\ resolved' = << >>
  /\ log' = << >>
  /\ steps' = << >>
  /\ itemInput' = NoInput
  /\ inputs' = << >>

\* The node is executed a second time on the file the first execution left,
\* with the same parameters and the same items.
Rerun ==
  /\ pc = "done"
  /\ history = << >>
  /\ history' = << Ended(TRUE) >>
  /\ remote0' = remote
  /\ pc' = "start"
  /\ Fresh
  /\ UNCHANGED << remote, params >>

InitRerun == Init /\ params.op = "upsertRows"

NextRerun ==
  \/ StartUpsert
  \/ LoadWorkbook
  \/ LoadWorkbookFails
  \/ GetWorksheet
  \/ UpsertReadHeaders
  \/ ValidateKeyColumns
  \/ IndexExistingRows
  \/ UpsertResolveItem
  \/ UpsertRecord
  \/ NextItem
  \/ SaveWorkbook
  \/ SaveWorkbookFails
  \/ Rerun

\* upsertRows executed twice in succession
SpecRerun == InitRerun /\ [][NextRerun]_vars

(***************************************************************************)
(* The node as a whole: the router in front of the operations, and the     *)
(* operations on whole sheets and on the workbook.  A workflow executes    *)
(* the node several times on the same file.                                *)
(***************************************************************************)
\* Executions of the node in one sequence
MaxRuns == 2

\* The options of the Operation property under each resource
Offered ==
  [ sheet |-> {"appendRows", "clearSheet", "deleteSheet", "readRows", "getSheets",
               "updateCell", "upsertRows"},
    table |-> {"getColumns", "getTableRows", "lookup"},
    workbook |-> {"addSheet", "deleteWorkbook", "getWorkbookSheets", "getWorkbooks"} ]

Routed(handler) == [ok |-> TRUE, handler |-> handler, err |-> ""]

Unrouted(msg) == [ok |-> FALSE, handler |-> "", err |-> msg]

\* router: the handler the pair is dispatched to, or the error thrown
router(resource, operation) ==
  IF resource = "sheet"
    THEN CASE operation = "getSheets" -> Routed("getSheets")
           [] operation = "readRows" -> Routed("readRows")
           [] operation = "appendRows" -> Routed("appendRows")
           [] operation = "updateCell" -> Routed("updateRange")
           [] operation = "upsertRows" -> Routed("upsertRows")
           [] operation = "clearSheet" -> Routed("clearSheet")
           [] operation = "deleteSheet" -> Routed("deleteSheet")
           [] OTHER -> Unrouted("Unknown sheet operation: " \o operation)
  ELSE IF resource = "table"
    THEN CASE operation = "getColumns" -> Routed("getColumns")
           [] operation = "getTableRows" -> Routed("getRows")
           [] operation = "lookup" -> Routed("lookup")
           [] OTHER -> Unrouted("Unknown table operation: " \o operation)
  ELSE IF resource = "workbook"
    THEN CASE operation = "addSheet" -> Routed("addSheet")
           [] operation = "deleteWorkbook" -> Routed("deleteWorkbook")
           [] operation = "getWorkbooks" -> Routed("getWorkbooks")
           [] OTHER -> Unrouted("Unknown workbook operation: " \o operation)
  ELSE Unrouted("Unknown resource: " \o resource)

\* The pairs an execution is started with: all that are offered, and some
\* that are not
Pairs ==
  {<<r, o>> \in (DOMAIN Offered) \X (UNION {Offered[q] : q \in DOMAIN Offered}) :
     o \in Offered[r]}
    \cup {<<"sheet", "addSheet">>, <<"table", "readRows">>, <<"chart", "getSheets">>}

\* The operations that read the sheetName parameter
SheetNamed == {"readRows", "appendRows", "updateCell", "upsertRows", "clearSheet",
               "deleteSheet"}

BookSheetNames == {"Sheet1", "Data"}

NewSheetNames == {"", " ", "Data"}

\* cellRef 'B2' and the cellValue of updateCell
CellRef == [row |-> 2, col |-> 2]

CellValue == S("v")

\* The parameters of an execution of the node; the two row engines run on
\* one item in autoMap mode with key column ID.
BookParamPool ==
  { [resource |-> p[1], operation |-> p[2], op |-> p[2],
     sheetName |-> s, newSheetName |-> n,
     dataMode |-> "autoMap", headerRowOption |-> 0, keyColumn |-> "ID",
     matchingColumns |-> << >>, nItems |-> 1] :
       p \in Pairs, s \in BookSheetNames, n \in NewSheetNames }

BookParams ==
  {p \in BookParamPool :
     /\ (p.operation \notin SheetNamed \/ p.resource # "sheet") => p.sheetName = "Sheet1"
     /\ (p.operation # "addSheet" \/ p.resource # "workbook") => p.newSheetName = ""}

\* The files the sequence starts on: one sheet, or two
BookWorkbooks ==
  { [n \in {"Sheet1"} |->
       << Row3(S("ID"), S("Name"), Null), Row3(S("1"), S("x"), Null) >>],
    [n \in {"Sheet1", "Data"} |->
       IF n = "Sheet1"
         THEN << Row3(S("ID"), S("Name"), Null), Row3(S("1"), S("x"), Null) >>
         ELSE << >>] }

\* The stored file after deleteFile
NoFile == << >>

\* The variables of the two row engines
rowVars == << headers, hasHeaders, headerMap, keyColumns, existingRows, i, rowsToAdd,
              j, totalRowsAdded, updatedCount, appendedCount, headerWrites,
              itemWrites, resolved, log, itemInput, inputs >>

InitBook ==
  /\ remote \in BookWorkbooks
  /\ remote0 = remote
  /\ params \in BookParams
  /\ pc = "router"
  /\ error = ""
  /\ workbook = << >>
  /\ headers = NoHeaders
  /\ hasHeaders = FALSE
  /\ headerMap = << >>
  /\ keyColumns = << >>
  /\ existingRows = << >>
  /\ i = 0
  /\ rowsToAdd = << >>
  /\ j = 1
  /\ totalRowsAdded = 0
  /\ updatedCount = 0
  /\ appendedCount = 0
  /\ returnData = << >>
  /\ loadCalls = 0
  /\ saveCalls = 0
  /\ headerWrites = 0
  /\ itemWrites = 0
  /\ resolved = << >>
  /\ log = << >>
  /\ steps = << >>
  /\ itemInput = NoInput
  /\ inputs = << >>
  /\ history = << >>

\* router(): the pair is dispatched to its handler, or rejected.
Route ==
  /\ pc = "router"
  /\ LET to == router(params.resource, params.operation)
     IN  IF to.ok
           THEN /\ pc' = IF to.handler \in {"appendRows", "upsertRows"}
                           THEN "start" ELSE to.handler
                /\ error' = error
           ELSE Throw(to.err)
  /\ UNCHANGED << remote, remote0, params, workbook, returnData, loadCalls, saveCalls,
                  steps, history, rowVars >>

SheetNameEmpty == "Sheet name cannot be empty"

SheetExists(name) == "Sheet \"" \o name \o "\" already exists in the workbook"

LastSheet == "Cannot delete the last sheet in a workbook"

\* newSheetName.trim()
Trim(name) == IF name = " " THEN "" ELSE name

\* addSheet, before the download: if (!newSheetName || newSheetName.trim() === '')
AddSheetCheckName ==
  /\ pc = "addSheet"
  /\ IF params.newSheetName = "" \/ Trim(params.newSheetName) = ""
       THEN Throw(SheetNameEmpty)
       ELSE pc' = "addSheet:named" /\ error' = error
  /\ UNCHANGED << remote, remote0, params, workbook, returnData, loadCalls, saveCalls,
                  steps, history, rowVars >>

\* Where the handlers of whole sheets and of the workbook call loadWorkbook
LoadPoints == {"getSheets", "readRows", "updateRange", "clearSheet", "deleteSheet",
               "addSheet:named"}

Loaded(at) == IF at = "addSheet:named" THEN "addSheet:loaded" ELSE at \o ":loaded"

\* Variant of BookLoadWorkbook: the handler uploads what it downloaded.
BookLoadWorkbookSavingBack ==
  /\ pc \in LoadPoints
  /\ loadCalls' = loadCalls + 1
  /\ saveCalls' = saveCalls + 1
  /\ workbook' = remote
  /\ pc' = Loaded(pc)
  /\ steps' = steps \o << "loadWorkbook", "saveWorkbook" >>
  /\ UNCHANGED << remote, remote0, params, error, returnData, history, rowVars >>

\* await loadWorkbook(...) of these handlers: the download delivers the file.
BookLoadWorkbook ==
  /\ pc \in LoadPoints
  /\ loadCalls' = loadCalls + 1
  /\ workbook' = remote
  /\ pc' = Loaded(pc)
  /\ steps' = Append(steps, "loadWorkbook")
  /\ UNCHANGED << remote, remote0, params, error, returnData, saveCalls, history,
                  rowVars >>

\* await loadWorkbook(...) of these handlers: the download fails.
BookLoadWorkbookFails ==
  /\ pc \in LoadPoints
  /\ loadCalls' = loadCalls + 1
  /\ Throw(DownloadFailed)
  /\ steps' = Append(steps, "loadWorkbook")
  /\ UNCHANGED << remote, remote0, params, workbook, returnData, saveCalls, history,
                  rowVars >>

\* getSheets: the sheets of the workbook are listed.
getSheets ==
  /\ pc = "getSheets:loaded"
  /\ returnData' = << [sheets |-> [n \in DOMAIN workbook |-> Len(workbook[n])]] >>
  /\ pc' = "done"
  /\ UNCHANGED << remote, remote0, params, error, workbook, loadCalls, saveCalls,
                  steps, history, rowVars >>

\* readRows: the rows of the named sheet are returned.
readRows ==
  /\ pc = "readRows:loaded"
  /\ IF params.sheetName \in DOMAIN workbook
       THEN /\ returnData' = << [rows |-> workbook[params.sheetName]] >>
            /\ pc' = "done"
            /\ error' = error
       ELSE /\ Throw(SheetNotFound(params.sheetName))
            /\ returnData' = returnData
  /\ steps' = Append(steps, "getWorksheet")
  /\ UNCHANGED << remote, remote0, params, workbook, loadCalls, saveCalls, history,
                  rowVars >>

\* updateRange (operation updateCell): the cell gets the value.
updateRange ==
  /\ pc = "updateRange:loaded"
  /\ IF params.sheetName \in DOMAIN workbook
       THEN /\ workbook' =
                 [workbook EXCEPT ![params.sheetName] =
                    [GetRowPad(@, CellRef.row) EXCEPT ![CellRef.row][CellRef.col] =
                       CellValue]]
            /\ pc' = "updateRange:save"
            /\ error' = error
       ELSE /\ Throw(SheetNotFound(params.sheetName))
            /\ workbook' = workbook
  /\ steps' = Append(steps, "getWorksheet")
  /\ UNCHANGED << remote, remote0, params, returnData, loadCalls, saveCalls, history,
                  rowVars >>

\* clearSheet: worksheet.spliceRows(1, rowCount) when the sheet has rows.
clearSheet ==
  /\ pc = "clearSheet:loaded"
  /\ IF params.sheetName \in DOMAIN workbook
       THEN /\ workbook' = [workbook EXCEPT ![params.sheetName] = << >>]
            /\ steps' = IF Len(workbook[params.sheetName]) > 0
                          THEN steps \o << "getWorksheet", "spliceRows" >>
                          ELSE Append(steps, "getWorksheet")
            /\ pc' = "clearSheet:save"
            /\ error' = error
       ELSE /\ Throw(SheetNotFound(params.sheetName))
            /\ workbook' = workbook
            /\ steps' = Append(steps, "getWorksheet")
  /\ UNCHANGED << remote, remote0, params, returnData, loadCalls, saveCalls, history,
                  rowVars >>

\* Variant of deleteSheet: the check for the last sheet is left out.
deleteSheetEvenTheLast ==
  /\ pc = "deleteSheet:loaded"
  /\ IF params.sheetName \notin DOMAIN workbook
       THEN /\ Throw(SheetNotFound(params.sheetName))
            /\ UNCHANGED << workbook, steps >>
       ELSE /\ workbook' = [n \in DOMAIN workbook \ {params.sheetName} |-> workbook[n]]
            /\ steps' = Append(steps, "removeWorksheet")
            /\ pc' = "deleteSheet:save"
            /\ error' = error
  /\ UNCHANGED << remote, remote0, params, returnData, loadCalls, saveCalls, history,
                  rowVars >>

\* deleteSheet: the named sheet is removed unless it is missing or the last.
deleteSheet ==
  /\ pc = "deleteSheet:loaded"
  /\ IF params.sheetName \notin DOMAIN workbook
       THEN /\ Throw(SheetNotFound(params.sheetName))
            /\ UNCHANGED << workbook, steps >>
       ELSE IF Cardinality(DOMAIN workbook) <= 1
              THEN /\ Throw(LastSheet)
                   /\ UNCHANGED << workbook, steps >>
              ELSE /\ workbook' =
                        [n \in DOMAIN workbook \ {params.sheetName} |-> workbook[n]]
                   /\ steps' = Append(steps, "removeWorksheet")
                   /\ pc' = "deleteSheet:save"
                   /\ error' = error
  /\ UNCHANGED << remote, remote0, params, returnData, loadCalls, saveCalls, history,
                  rowVars >>

\* Variant of addSheet: a sheet of that name is replaced by the new one.
addSheetReplacing ==
  /\ pc = "addSheet:loaded"
  /\ workbook' = [n \in DOMAIN workbook \cup {params.newSheetName} |->
                    IF n = params.newSheetName THEN << >> ELSE workbook[n]]
  /\ steps' = Append(steps, "addWorksheet")
  /\ pc' = "addSheet:save"
  /\ error' = error
  /\ UNCHANGED << remote, remote0, params, returnData, loadCalls, saveCalls, history,
                  rowVars >>

\* addSheet, after the download: a sheet of a name not yet in the workbook is added.
addSheet ==
  /\ pc = "addSheet:loaded"
  /\ IF params.newSheetName \in DOMAIN workbook
       THEN /\ Throw(SheetExists(params.newSheetName))
            /\ UNCHANGED << workbook, steps >>
       ELSE /\ workbook' = [n \in DOMAIN workbook \cup {params.newSheetName} |->
                              IF n = params.newSheetName THEN << >> ELSE workbook[n]]
            /\ steps' = Append(steps, "addWorksheet")
            /\ pc' = "addSheet:save"
            /\ error' = error
  /\ UNCHANGED << remote, remote0, params, returnData, loadCalls, saveCalls, history,
                  rowVars >>

\* Where these handlers call saveWorkbook
SavePoints == {"updateRange:save", "clearSheet:save", "deleteSheet:save",
               "addSheet:save"}

\* The result item of the handler that has saved
BookResult ==
  CASE pc = "updateRange:save" ->
         [success |-> TRUE, cell |-> CellRef, newValue |-> CellValue,
          sheet |-> params.sheetName]
    [] pc = "clearSheet:save" ->
         [success |-> TRUE, sheet |-> params.sheetName,
          clearedRows |-> Len(remote[params.sheetName])]
    [] pc = "deleteSheet:save" ->
         [success |-> TRUE, deletedSheet |-> params.sheetName,
          remainingSheets |-> DOMAIN workbook]
    [] pc = "addSheet:save" ->
         [success |-> TRUE, sheetName |-> params.newSheetName,
          totalSheets |-> Cardinality(DOMAIN workbook)]

\* await saveWorkbook(...) of these handlers, then the result item.
BookSaveWorkbook ==
  /\ pc \in SavePoints
  /\ saveCalls' = saveCalls + 1
  /\ remote' = workbook
  /\ returnData' = << BookResult >>
  /\ pc' = "done"
  /\ steps' = Append(steps, "saveWorkbook")
  /\ UNCHANGED << remote0, params, error, workbook, loadCalls, history, rowVars >>

\* await saveWorkbook(...) of these handlers: the upload fails.
BookSaveWorkbookFails ==
  /\ pc \in SavePoints
  /\ saveCalls' = saveCalls + 1
  /\ Throw(UploadFailed)
  /\ steps' = Append(steps, "saveWorkbook")
  /\ UNCHANGED << remote, remote0, params, workbook, returnData, loadCalls, history,
                  rowVars >>

\* The handlers that only send GET requests to the Graph API
GraphReaders == {"getWorkbooks", "getColumns", "getRows", "lookup"}

RequestFailed == "Graph API request failed: request"

\* getWorkbooks, getColumns, getRows, lookup: the GET requests are answered.
GraphRead ==
  /\ pc \in GraphReaders
  /\ returnData' = << [from |-> pc] >>
  /\ pc' = "done"
  /\ steps' = Append(steps, "graphRequest GET")
  /\ UNCHANGED << remote, remote0, params, error, workbook, loadCalls, saveCalls,
                  history, rowVars >>

\* getWorkbooks, getColumns, getRows, lookup: a GET request fails.
GraphReadFails ==
  /\ pc \in GraphReaders
  /\ Throw(RequestFailed)
  /\ steps' = Append(steps, "graphRequest GET")
  /\ UNCHANGED << remote, remote0, params, workbook, returnData, loadCalls, saveCalls,
                  history, rowVars >>

\* deleteWorkbook: deleteFile removes the file.
deleteWorkbook ==
  /\ pc = "deleteWorkbook"
  /\ remote' = NoFile
  /\ returnData' = << [success |-> TRUE, deleted |-> TRUE] >>
  /\ pc' = "done"
  /\ steps' = Append(steps, "graphRequest DELETE")
  /\ UNCHANGED << remote0, params, error, workbook, loadCalls, saveCalls, history,
                  rowVars >>

\* deleteWorkbook: the DELETE request fails.
deleteWorkbookFails ==
  /\ pc = "deleteWorkbook"
  /\ Throw(RequestFailed)
  /\ steps' = Append(steps, "graphRequest DELETE")
  /\ UNCHANGED << remote, remote0, params, workbook, returnData, loadCalls, saveCalls,
                  history, rowVars >>

\* The next execution of the node in the workflow, on the file as it is now.
NextExecution ==
  /\ pc \in {"done", "failed"}
  /\ Len(history) + 1 < MaxRuns
  /\ remote # NoFile
  /\ history' = Append(history, [operation |-> params.operation,
                                 resource |-> params.resource,
                                 ok |-> pc = "done", again |-> FALSE])
  /\ params' \in BookParams
  /\ remote0' = remote
  /\ pc' = "router"
  /\ Fresh
  /\ UNCHANGED remote

NextBook ==
  \/ Route
  \/ AddSheetCheckName
  \/ BookLoadWorkbook
  \/ BookLoadWorkbookFails
  \/ getSheets
  \/ readRows
  \/ updateRange
  \/ clearSheet
  \/ deleteSheet
  \/ addSheet
  \/ BookSaveWorkbook
  \/ BookSaveWorkbookFails
  \/ GraphRead
  \/ GraphReadFails
  \/ deleteWorkbook
  \/ deleteWorkbookFails
  \/ StartAppend
  \/ StartUpsert
  \/ LoadWorkbook
  \/ LoadWorkbookFails
  \/ GetWorksheet
  \/ AppendReadHeaders
  \/ UpsertReadHeaders
  \/ ValidateKeyColumns
  \/ IndexExistingRows
  \/ AppendResolveItem
  \/ AppendRecord
  \/ UpsertResolveItem
  \/ UpsertRecord
  \/ NextItem
  \/ SaveWorkbook
  \/ SaveWorkbookFails
  \/ NextExecution

\* The node executed up to MaxRuns times on one file
SpecBook == InitBook /\ [][NextBook]_vars

TypeOK ==
  /\ pc \in {"start", "load", "sheet", "headers", "validate", "index", "item",
             "rows", "done", "failed"}
  /\ (pc = "failed") <=> (error # "")
  /\ i \in 0..params.nItems
  /\ Len(log) <= MaxBatch

(***************************************************************************)
(* Properties.                                                             *)
(***************************************************************************)
\* The sheet as the invocation found it, the header row created if missing
LoadedSheet == GetRowPad(remote0[params.sheetName], headerRow)

\* C1: an error raised by any step other than the upload itself leaves
\* saveWorkbook uncalled and the stored file as it was, also when records of
\* the batch have already changed the workbook in memory; the stored file
\* changes only in an invocation that ends successfully, by its single save.
C1_NoSaveAfterError ==
  /\ (pc = "failed" /\ error # UploadFailed) => (saveCalls = 0 /\ remote = remote0)
  /\ (remote # remote0) => (pc = "done" /\ saveCalls = 1)

C1_Witness ==
  /\ pc = "failed"
  /\ error # UploadFailed
  /\ Len(log) >= 1
  /\ workbook # remote
  /\ saveCalls = 0

\* C2: in upsertRows every processed record either appends exactly one row
\* and leaves the existing rows alone, or changes nothing outside one
\* existing data row and leaves the row count alone, and is counted once in
\* the matching counter; a successful invocation reports
\* rowsUpdated + rowsAppended = the number of records resolved.
C2_MatchOrAppendTotality ==
  [][ params.op = "upsertRows" =>
        /\ (log' # log) =>
             \/ /\ Len(worksheet') = Len(worksheet) + 1
                /\ SubSeq(worksheet', 1, Len(worksheet)) = worksheet
                /\ appendedCount' = appendedCount + 1
                /\ updatedCount' = updatedCount
             \/ /\ Len(worksheet') = Len(worksheet)
                /\ \E r \in (headerRow + 1)..Len(worksheet) :
                     \A q \in 1..Len(worksheet) : q # r => worksheet'[q] = worksheet[q]
                /\ updatedCount' = updatedCount + 1
                /\ appendedCount' = appendedCount
        /\ (log' = log) => (updatedCount' = updatedCount /\ appendedCount' = appendedCount)
        /\ (pc' = "done") =>
             /\ updatedCount' + appendedCount' = Len(resolved')
             /\ Len(returnData') = 1
             /\ returnData'[1].rowsUpdated + returnData'[1].rowsAppended = Len(resolved')
    ]_vars

C2_Witness ==
  /\ pc = "done"
  /\ params.op = "upsertRows"
  /\ returnData[1].rowsUpdated >= 1
  /\ returnData[1].rowsAppended >= 1
  /\ Len(resolved) > params.nItems

\* C3: a successful invocation has called loadWorkbook once and
\* saveWorkbook once, and what it saved holds every row mutation; the sheet
\* is read and changed only after the one load and before any save.
C3_OneLoadOneSave ==
  /\ loadCalls <= 1
  /\ saveCalls <= 1
  /\ (pc = "done") =>
       (loadCalls = 1 /\ saveCalls = 1 /\ remote = workbook /\ Len(log) = Len(resolved))
  /\ (pc \in {"sheet", "headers", "validate", "index", "rows"}) =>
       (loadCalls = 1 /\ saveCalls = 0)
  /\ (loadCalls = 0) =>
       (workbook = << >> /\ headers = NoHeaders /\ existingRows = << >> /\ log = << >>)

C3_Witness ==
  /\ pc = "done"
  /\ params.nItems = 2
  /\ Len(log) >= 2
  /\ workbook # remote0
  /\ loadCalls = 1
  /\ saveCalls = 1

\* The errors that reject an input item or one of its records
ItemValidationErrors ==
  { "No column values provided in manual mapping mode",
    "Invalid JSON in Row Data" }
    \cup {"Unknown data mode: " \o m : m \in DataModes}
    \cup {MissingKeyValue(c) : c \in ColNames \cup {"Zed"}}

\* C4: when a validation error of an input item is raised, no record of that
\* item has been written to the sheet.
C4_ValidationBeforeItemMutation ==
  (pc = "failed" /\ error \in ItemValidationErrors) => itemWrites = 0

\* The upsert index exists: the invocation got past its build
IndexBuilt ==
  /\ params.op = "upsertRows"
  /\ \/ pc \in {"item", "rows", "done"}
     \/ pc = "failed" /\ error \in ItemValidationErrors \cup {UploadFailed}

\* The index as built from the sheet that was loaded
IndexAtLoad == BuildIndex(LoadedSheet, headerRow, headerMap, keyColumns)

LogOf(kind) == {n \in 1..Len(log) : log[n].kind = kind}

\* C5: the index of existing rows stays the one built from the loaded sheet
\* for the whole batch; every record whose key is not in it is appended as
\* a new row of its own and counted in rowsAppended, also when an earlier
\* record of the batch had the same key.
C5_IndexFrozenDuringBatch ==
  IndexBuilt =>
    /\ existingRows = IndexAtLoad
    /\ \A n \in 1..Len(log) :
         (log[n].key \notin DOMAIN IndexAtLoad) <=> (log[n].kind = "append")
    /\ \A n \in LogOf("append") :
         log[n].row = Len(LoadedSheet) + Cardinality({m \in LogOf("append") : m <= n})
    /\ appendedCount = Cardinality(LogOf("append"))
    /\ updatedCount = Cardinality(LogOf("update"))

C5_Witness ==
  /\ IndexBuilt
  /\ pc = "done"
  /\ \E n, m \in LogOf("append") :
       /\ n < m
       /\ log[n].key = log[m].key
       /\ log[n].key # ""
       /\ log[n].row # log[m].row
  /\ returnData[1].rowsAppended >= 2

\* Every key-column cell of the row is blank (null or the empty string)
AllKeyCellsBlank(row) ==
  \A n \in 1..Len(keyColumns) : row[headerMap[keyColumns[n]]] \in {Null, S("")}

BlankKeyRows ==
  {r \in (headerRow + 1)..Len(LoadedSheet) : AllKeyCellsBlank(LoadedSheet[r])}

\* C6: an existing data row whose key-column cells are all blank is not in
\* the index, is updated by no record and keeps its cells; a record whose
\* key values are all empty strings is appended.
C6_BlankKeyRowsNeverMatched ==
  IndexBuilt =>
    /\ \A r \in BlankKeyRows :
         /\ \A k \in DOMAIN existingRows : existingRows[k] # r
         /\ \A n \in LogOf("update") : log[n].row # r
         /\ worksheet[r] = LoadedSheet[r]
    /\ \A n \in 1..Len(log) :
         (log[n].key = EmptyKey(keyColumns)) => log[n].kind = "append"

C6_Witness ==
  /\ IndexBuilt
  /\ pc = "done"
  /\ BlankKeyRows # {}
  /\ \E n \in LogOf("append") : log[n].key = EmptyKey(keyColumns)

\* The header row that was loaded holds no non-blank header
BlankHeaderAtLoad == ~HasHeaders(ReadHeaders(LoadedSheet[headerRow]))

\* C7: appendRows on a blank header row writes the header row exactly once,
\* from the keys of the first resolved record in key order at columns 1..N,
\* and maps every record with that header map.
C7_HeaderBootstrapOnce ==
  ( /\ params.op = "appendRows"
    /\ pc \in {"rows", "done"}
    /\ BlankHeaderAtLoad
    /\ Len(resolved) >= 1
    /\ Len(resolved[1]) >= 1 ) =>
      /\ headerWrites = 1
      /\ \A c \in 1..Len(resolved[1]) : worksheet[headerRow][c] = S(resolved[1][c].k)
      /\ headerMap = KeysHeaderMap(resolved[1])

\* The value the record gives to column c through a key that is a header
MappedValues(rec, c) ==
  {rec[m].v : m \in {q \in 1..Len(rec) :
                       rec[q].k \in DOMAIN headerMap /\ headerMap[rec[q].k] = c}}

\* C8: every cell written by a record, in an appended row or in an updated
\* existing row, holds the value of a key of that record that is a header
\* name, at that header's column; a key that is no header reaches no cell,
\* and no record is rejected for it: appendRows rejects no record, and
\* upsertRows rejects a record only when it lacks a key-column value.
C8_UnmappedKeysDropped ==
  (loadCalls = 1 /\ pc \in {"item", "rows", "done", "failed"} /\ error # DownloadFailed
     /\ params.sheetName \in DOMAIN workbook /\ Len(worksheet) >= headerRow) =>
    /\ \A n \in LogOf("append") : \A c \in Cols :
         worksheet[log[n].row][c] # Null =>
           worksheet[log[n].row][c] \in MappedValues(log[n].rec, c)
    /\ \A r \in 1..Len(LoadedSheet) : \A c \in Cols :
         (r # headerRow /\ worksheet[r][c] # LoadedSheet[r][c]) =>
           \E n \in LogOf("update") :
             log[n].row = r /\ worksheet[r][c] \in MappedValues(log[n].rec, c)
    /\ (pc = "failed" /\ Len(log) < Len(resolved)) =>
         /\ params.op = "upsertRows"
         /\ MissingKeyColumn(rowsToAdd[j], keyColumns) # ""
         /\ error = MissingKeyValue(MissingKeyColumn(rowsToAdd[j], keyColumns))

C8_Witness ==
  /\ pc = "done"
  /\ \E n \in LogOf("update") :
       /\ RecKeys(log[n].rec) \ DOMAIN headerMap # {}
       /\ worksheet[log[n].row] # LoadedSheet[log[n].row]

\* C9: in appendRows the cell of an appended row under a header the record
\* has no key for is blank, whatever the rows above it hold.
C9_OmittedColumnsBlank ==
  (params.op = "appendRows" /\ loadCalls = 1) =>
    \A n \in 1..Len(log) : \A h \in DOMAIN headerMap :
      h \notin RecKeys(log[n].rec) => worksheet[log[n].row][headerMap[h]] = Null

C9_Witness ==
  /\ params.op = "appendRows"
  /\ pc = "done"
  /\ \E n \in 1..Len(log) : \E h \in DOMAIN headerMap :
       /\ h \notin RecKeys(log[n].rec)
       /\ RecKeys(log[n].rec) \cap DOMAIN headerMap # {}
       /\ worksheet[log[n].row - 1][headerMap[h]] # Null
       /\ log[n].row - 1 # headerRow

\* C10: appendRows adds one row per resolved record below the loaded rows,
\* in the order the records were resolved, each row carrying its record
\* under the headers, and returns one result item whose rowsAdded is the
\* number of records.
C10_OneRowPerRecordInOrder ==
  (params.op = "appendRows" /\ loadCalls = 1 /\ pc \in {"item", "rows", "done"}) =>
    /\ Len(worksheet) = Len(LoadedSheet) + Len(log)
    /\ \A n \in 1..Len(log) :
         /\ log[n].rec = resolved[n]
         /\ log[n].row = Len(LoadedSheet) + n
         /\ \A m \in 1..Len(resolved[n]) :
              resolved[n][m].k \in DOMAIN headerMap =>
                worksheet[Len(LoadedSheet) + n][headerMap[resolved[n][m].k]]
                  = resolved[n][m].v
    /\ \A r \in 1..Len(LoadedSheet) : r # headerRow => worksheet[r] = LoadedSheet[r]
    /\ (pc = "done") =>
         /\ Len(log) = Len(resolved)
         /\ returnData = << [success |-> TRUE, rowsAdded |-> Len(resolved),
                             sheet |-> params.sheetName] >>

C10_Witness ==
  /\ params.op = "appendRows"
  /\ params.dataMode = "raw"
  /\ pc = "done"
  /\ i = 2
  /\ Len(resolved) = 2
  /\ resolved[1] # resolved[2]
  /\ log[1].item = 0
  /\ log[2].item = 0
  /\ returnData[1].rowsAdded = 2

\* The steps taken so far, as a set
StepsTaken == {steps[n] : n \in 1..Len(steps)}

\* C11: in upsertRows in raw mode the 'Invalid JSON in Row Data' error is
\* raised before any sheet access: the header row has not been read, no data
\* row has been scanned for the index and no cell has been written.
C11_InvalidJsonBeforeSheetAccess ==
  ( /\ params.op = "upsertRows"
    /\ params.dataMode = "raw"
    /\ pc = "failed"
    /\ error = "Invalid JSON in Row Data" ) =>
      /\ "readHeaders" \notin StepsTaken
      /\ "scanRows" \notin StepsTaken
      /\ log = << >>

NoMatchingColumns == "At least one matching column must be selected in manual mode"

\* The steps of upsertRows outside the item loop, in the order of the code
UpsertStepOrder ==
  << "getKeyColumns", "loadWorkbook", "getWorksheet", "readHeaders",
     "validateKeyColumns", "scanRows", "saveWorkbook" >>

Position(step) == CHOOSE n \in 1..Len(steps) : steps[n] = step

\* C12 as stated: in upsertRows the workbook is loaded, then the key columns
\* are validated, then the data rows are scanned, and in manual mode with an
\* empty matchingColumns list the error is raised after the workbook has
\* been loaded and before any data row is scanned.
C12_MatchingColumnsErrorAfterLoad ==
  params.op = "upsertRows" =>
    /\ ("validateKeyColumns" \in StepsTaken) =>
         /\ "loadWorkbook" \in StepsTaken
         /\ Position("loadWorkbook") < Position("validateKeyColumns")
    /\ ("scanRows" \in StepsTaken) =>
         /\ "validateKeyColumns" \in StepsTaken
         /\ Position("validateKeyColumns") < Position("scanRows")
    /\ (pc = "failed" /\ error = NoMatchingColumns) =>
         /\ "loadWorkbook" \in StepsTaken
         /\ "scanRows" \notin StepsTaken

\* C12 amended: upsertRows resolves the key columns from the parameters
\* first, then loads the workbook, then validates the key columns against the
\* headers, then scans the data rows; in manual mode with an empty
\* matchingColumns list the error is raised before the workbook is loaded,
\* so loadWorkbook is never called and no row is scanned.
C12_MatchingColumnsErrorBeforeLoad ==
  params.op = "upsertRows" =>
    /\ Len(steps) <= Len(UpsertStepOrder)
    /\ steps = SubSeq(UpsertStepOrder, 1, Len(steps))
    /\ (pc = "failed" /\ error = NoMatchingColumns) =>
         /\ steps = << "getKeyColumns" >>
         /\ loadCalls = 0
         /\ workbook = << >>
         /\ existingRows = << >>
    /\ (params.dataMode = "manual" /\ params.matchingColumns = << >> /\ pc # "start") =>
         (pc = "failed" /\ error = NoMatchingColumns)

C12_Witness ==
  /\ params.op = "upsertRows"
  /\ params.dataMode = "manual"
  /\ pc = "failed"
  /\ error = NoMatchingColumns
  /\ steps = << "getKeyColumns" >>

\* The header names of the header row that was loaded
HeaderNamesAtLoad ==
  {JSString(LoadedSheet[headerRow][c]) : c \in {d \in Cols : LoadedSheet[headerRow][d] # Null}}
    \ {""}

\* The designated key columns that are no header name, by position
KeyColumnsNotHeaders == {n \in 1..Len(keyColumns) : keyColumns[n] \notin HeaderNamesAtLoad}

\* C13: once upsertRows has its key columns and the sheet, it fails with
\* 'Key column "<name>" not found in headers' exactly when some key column is
\* no header name of the header row, as on every sheet whose header row is
\* empty; it then has written no header cell, scanned and changed no row and
\* not saved.
C13_KeyColumnMustBeHeader ==
  (params.op = "upsertRows" /\ "validateKeyColumns" \in StepsTaken) =>
    IF KeyColumnsNotHeaders # {}
      THEN /\ pc = "failed"
           /\ error = KeyColumnNotFound(
                keyColumns[CHOOSE n \in KeyColumnsNotHeaders :
                             \A m \in KeyColumnsNotHeaders : n <= m])
           /\ headerWrites = 0
           /\ worksheet = LoadedSheet
           /\ "scanRows" \notin StepsTaken
           /\ existingRows = << >>
           /\ log = << >>
           /\ saveCalls = 0
           /\ remote = remote0
      ELSE error \notin {KeyColumnNotFound(c) : c \in ColNames \cup {"Zed"}}

C13_Witness ==
  /\ params.op = "upsertRows"
  /\ "validateKeyColumns" \in StepsTaken
  /\ pc = "failed"
  /\ error = KeyColumnNotFound(keyColumns[1])
  /\ LoadedSheet[headerRow] = BlankRow

\* The header name a sheet shows at column c, "" where it shows none
HeaderNameAt(sheet, c) ==
  IF sheet[headerRow][c] = Null THEN "" ELSE JSString(sheet[headerRow][c])

\* C14: a record of upsertRows that matches an existing row overwrites, in
\* that row, exactly the cells under the headers that are keys of the record,
\* with the record's values; the other cells of the row, every other row,
\* the header row and the number of rows stay as they were.
C14_UpdateTouchesOnlyMappedCells ==
  [][ (params.op = "upsertRows" /\ log' # log /\ log'[Len(log')].kind = "update") =>
        LET rec == log'[Len(log')].rec
            r == log'[Len(log')].row
        IN  /\ Len(worksheet') = Len(worksheet)
            /\ r \in (headerRow + 1)..Len(worksheet)
            /\ \A q \in 1..Len(worksheet) : q # r => worksheet'[q] = worksheet[q]
            /\ \A c \in Cols :
                 IF HeaderNameAt(worksheet, c) # ""
                      /\ HeaderNameAt(worksheet, c) \in RecKeys(rec)
                   THEN worksheet'[r][c] = Get(rec, HeaderNameAt(worksheet, c))
                   ELSE worksheet'[r][c] = worksheet[r][c]
    ]_vars

C14_Witness ==
  /\ params.op = "upsertRows"
  /\ pc = "done"
  /\ Len(log) = 1
  /\ log[1].kind = "update"
  /\ worksheet[log[1].row] # LoadedSheet[log[1].row]
  /\ \E c \in Cols :
       /\ HeaderNameAt(worksheet, c) # ""
       /\ HeaderNameAt(worksheet, c) \notin RecKeys(log[1].rec)
       /\ worksheet[log[1].row][c] # Null
       /\ worksheet[log[1].row][c] = LoadedSheet[log[1].row][c]

\* The positions of the key columns for which the record holds null or nothing
KeyValuesMissing(rec) ==
  {n \in 1..Len(keyColumns) :
     \/ keyColumns[n] \notin RecKeys(rec)
     \/ Get(rec, keyColumns[n]) = Null}

\* C15: in upsertRows a record that holds null or nothing for some key column
\* is rejected with 'Row data missing key column "<name>" value' before it
\* updates or appends anything; a record that holds a value for every key
\* column is processed and not rejected.
C15_MissingKeyValueRejected ==
  [][ (params.op = "upsertRows" /\ pc = "rows" /\ j <= Len(rowsToAdd)) =>
        IF KeyValuesMissing(rowsToAdd[j]) # {}
          THEN /\ pc' = "failed"
               /\ error' \in {MissingKeyValue(keyColumns[n]) : n \in KeyValuesMissing(rowsToAdd[j])}
               /\ workbook' = workbook
               /\ log' = log
               /\ updatedCount' = updatedCount
               /\ appendedCount' = appendedCount
          ELSE /\ pc' = "rows"
               /\ error' = ""
               /\ log' = Append(log, log'[Len(log')])
               /\ log'[Len(log')].rec = rowsToAdd[j]
               /\ workbook' # workbook \/ log'[Len(log')].kind = "update"
    ]_vars

C15_Witness ==
  /\ params.op = "upsertRows"
  /\ pc = "failed"
  /\ Len(keyColumns) = 2
  /\ error = MissingKeyValue(keyColumns[2])
  /\ Get(rowsToAdd[j], keyColumns[2]) = Null
  /\ Len(log) = 1
  /\ KeyValuesMissing(log[1].rec) = {}

\* C16: for each input item the row-source resolver yields, in autoMap, one
\* record, the item's own fields; in manual, one record, the value of the
\* mapping (which must hold a key); in raw, the elements of the parsed JSON
\* array in order, or the one parsed object (the text must parse); for any
\* other mode it yields no record and fails with 'Unknown data mode: <mode>'.
C16_ResolverByMode ==
  [][ (pc = "item" /\ i < params.nItems) =>
        LET mode == params.dataMode
            yielded == IF pc' = "rows" THEN rowsToAdd' ELSE << >>
        IN  /\ resolved' = resolved \o yielded
            /\ CASE mode = "autoMap" ->
                      pc' = "rows" /\ rowsToAdd' = << itemInput'.json >>
                 [] mode = "manual" ->
                      IF itemInput'.columns.isNull \/ itemInput'.columns.value = << >>
                        THEN /\ pc' = "failed"
                             /\ error' = "No column values provided in manual mapping mode"
                        ELSE pc' = "rows" /\ rowsToAdd' = << itemInput'.columns.value >>
                 [] mode = "raw" ->
                      IF ~itemInput'.rowData.valid
                        THEN pc' = "failed" /\ error' = "Invalid JSON in Row Data"
                        ELSE /\ pc' = "rows"
                             /\ IF itemInput'.rowData.isArray
                                  THEN /\ Len(rowsToAdd') = Len(itemInput'.rowData.parsed)
                                       /\ \A n \in 1..Len(rowsToAdd') :
                                            rowsToAdd'[n] = itemInput'.rowData.parsed[n]
                                  ELSE rowsToAdd' = << itemInput'.rowData.parsed >>
                 [] OTHER ->
                      /\ pc' = "failed"
                      /\ error' = "Unknown data mode: " \o mode
                      /\ yielded = << >>
    ]_vars

C16_Witness ==
  /\ params.dataMode = "raw"
  /\ pc = "rows"
  /\ j = 1
  /\ itemInput.rowData.valid
  /\ itemInput.rowData.isArray
  /\ Len(itemInput.rowData.parsed) = 2
  /\ itemInput.rowData.parsed[1] # itemInput.rowData.parsed[2]
  /\ rowsToAdd = itemInput.rowData.parsed

\* The data rows of the sheet that was loaded
DataRowsAtLoad == (headerRow + 1)..Len(LoadedSheet)

\* The column of the loaded sheet whose header is `name`
ColumnOf(name) == CHOOSE c \in Cols : HeaderNameAt(LoadedSheet, c) = name

\* The String() forms of the key-column values of a record
RecordKeyForms(rec) ==
  [n \in 1..Len(keyColumns) |-> JSString(Get(rec, keyColumns[n]))]

\* The String() forms of the key-column cells of a loaded row, an empty cell
\* giving the empty string
RowKeyForms(r) ==
  [n \in 1..Len(keyColumns) |->
     IF LoadedSheet[r][ColumnOf(keyColumns[n])] = Null
       THEN ""
       ELSE JSString(LoadedSheet[r][ColumnOf(keyColumns[n])])]

Reversed(rec) == [n \in 1..Len(rec) |-> rec[Len(rec) + 1 - n]]

\* The entries of the record that belong to key columns, in insertion order
KeyEntriesOnly(rec) ==
  LET IsKeyEntry(e) == \E n \in 1..Len(keyColumns) : e.k = keyColumns[n]
  IN  SelectSeq(rec, IsKeyEntry)

\* Records with the key-column values of `rec`, in other insertion orders and
\* with other non-key fields
SameKeyValues(rec) ==
  { rec,
    Reversed(rec),
    KeyEntriesOnly(rec),
    Reversed(KeyEntriesOnly(rec)),
    << E("Other", S("o")) >> \o rec,
    Reversed(rec) \o << E("Other", N("7")) >> }

\* C18: createKey gives one composite key to all records that hold the same
\* values in the key columns, whatever the insertion order of their keys and
\* whatever their other fields.
C18_CreateKeyIgnoresOrderAndOtherFields ==
  IndexBuilt =>
    /\ \A n \in 1..Len(log) : \A other \in SameKeyValues(log[n].rec) :
         /\ \A m \in 1..Len(keyColumns) :
              Get(other, keyColumns[m]) = Get(log[n].rec, keyColumns[m])
         /\ createKey(other, keyColumns) = log[n].key
    /\ \A n, m \in 1..Len(log) :
         (\A q \in 1..Len(keyColumns) :
            Get(log[n].rec, keyColumns[q]) = Get(log[m].rec, keyColumns[q]))
           => log[n].key = log[m].key

C18_Witness ==
  /\ IndexBuilt
  /\ Len(keyColumns) = 2
  /\ Len(log) >= 1
  /\ log[1].rec[1].k = keyColumns[2]
  /\ log[1].rec[2].k = keyColumns[1]
  /\ log[1].key = "x|1"
  /\ Reversed(log[1].rec) # log[1].rec

\* The row a record makes under the headers of the loaded sheet: under each
\* header the record's value for that name, blank where it has none
RowUnderLoadedHeaders(rec) ==
  [c \in Cols |->
     IF HeaderNameAt(LoadedSheet, c) # "" /\ HeaderNameAt(LoadedSheet, c) \in RecKeys(rec)
       THEN Get(rec, HeaderNameAt(LoadedSheet, c))
       ELSE Null]

\* The loaded header row shows a header that is not blank
NonBlankHeaderAtLoad ==
  \E c \in Cols : HeaderNameAt(LoadedSheet, c) \notin {"", " ", "  "}

\* C19: when the loaded header row holds a non-blank header, appendRows
\* writes no header cell, the header row stays the loaded one, and every
\* record of every item is laid out by the header map read at load time.
C19_ExistingHeadersUntouched ==
  ( /\ params.op = "appendRows"
    /\ "readHeaders" \in StepsTaken
    /\ NonBlankHeaderAtLoad ) =>
      /\ hasHeaders
      /\ headerWrites = 0
      /\ worksheet[headerRow] = LoadedSheet[headerRow]
      /\ headers = ReadHeaders(LoadedSheet[headerRow])
      /\ (Len(log) >= 1 \/ pc = "rows") =>
           headerMap = BuildHeaderMap(ReadHeaders(LoadedSheet[headerRow]))
      /\ \A n \in 1..Len(log) :
           worksheet[log[n].row] = RowUnderLoadedHeaders(log[n].rec)
      /\ (pc = "done") => remote[params.sheetName][headerRow] = LoadedSheet[headerRow]

C19_Witness ==
  /\ params.op = "appendRows"
  /\ pc = "done"
  /\ NonBlankHeaderAtLoad
  /\ Len(log) = 2
  /\ log[1].item = 0
  /\ log[2].item = 1
  /\ Len(log[1].rec) >= 1
  /\ log[1].rec[1].k # HeaderNameAt(LoadedSheet, 1)
  /\ worksheet[log[2].row] # BlankRow

\* How many times a step was taken
TimesTaken(step) == Cardinality({n \in 1..Len(steps) : steps[n] = step})

LastStep == IF steps = << >> THEN "" ELSE steps[Len(steps)]

\* C20: neither engine retries a transport call: loadWorkbook and
\* saveWorkbook are each called at most once, and when one of them fails the
\* invocation ends with that call's error and returns no result item.
C20_NoTransportRetry ==
  /\ loadCalls <= 1
  /\ saveCalls <= 1
  /\ TimesTaken("loadWorkbook") = loadCalls
  /\ TimesTaken("saveWorkbook") = saveCalls
  /\ (pc = "failed") => returnData = << >>
  /\ (pc = "failed" /\ LastStep = "loadWorkbook") =>
       /\ error = DownloadFailed
       /\ loadCalls = 1
       /\ saveCalls = 0
       /\ workbook = << >>
       /\ remote = remote0
  /\ (pc = "failed" /\ LastStep = "saveWorkbook") =>
       /\ error = UploadFailed
       /\ loadCalls = 1
       /\ saveCalls = 1
       /\ remote = remote0
  /\ (error = DownloadFailed) => (pc = "failed" /\ LastStep = "loadWorkbook")
  /\ (error = UploadFailed) => (pc = "failed" /\ LastStep = "saveWorkbook")

C20_Witness ==
  /\ pc = "failed"
  /\ error = UploadFailed
  /\ saveCalls = 1
  /\ Len(log) >= 1
  /\ workbook # remote
  /\ returnData = << >>

\* C27: appendRows on a blank header row that resolves at least one record
\* creates the headers from the first resolved record, also when that record
\* comes from a later item than item 0, and writes the record's values under
\* them; no record with fields is written as a blank row for want of a
\* header map.
C27_BootstrapFromFirstRecordOfInvocation ==
  ( /\ params.op = "appendRows"
    /\ "readHeaders" \in StepsTaken
    /\ BlankHeaderAtLoad
    /\ Len(log) >= 1 ) =>
      /\ Len(resolved[1]) >= 1 => headerWrites = 1
      /\ \A c \in 1..Len(resolved[1]) :
           /\ worksheet[headerRow][c] = S(resolved[1][c].k)
           /\ worksheet[log[1].row][c] = resolved[1][c].v
      /\ \A n \in 1..Len(log) :
           (RecKeys(log[n].rec) \cap RecKeys(resolved[1]) # {}) =>
             \E c \in Cols :
               /\ HeaderNameAt(worksheet, c) \in RecKeys(log[n].rec)
               /\ worksheet[log[n].row][c] = Get(log[n].rec, HeaderNameAt(worksheet, c))

\* The composite key a sheet row shows under the key columns
RowKeyIn(sheet, r) ==
  Join([n \in 1..Len(keyColumns) |->
          IF sheet[r][ColumnOf(keyColumns[n])] = Null
            THEN ""
            ELSE JSString(sheet[r][ColumnOf(keyColumns[n])])])

\* The data rows at load that a later data row repeats the key of
ShadowedRows ==
  {r \in DataRowsAtLoad :
     \E q \in DataRowsAtLoad : q > r /\ RowKeyIn(LoadedSheet, q) = RowKeyIn(LoadedSheet, r)}

\* C28: when several existing data rows have the same composite key, the
\* index maps the key to the highest of their row numbers, every record with
\* that key updates that last row only, and the earlier rows stay unchanged.
C28_LastRowWinsOnDuplicateKeys ==
  IndexBuilt =>
    /\ \A k \in DOMAIN existingRows :
         /\ RowKeyIn(LoadedSheet, existingRows[k]) = k
         /\ \A q \in DataRowsAtLoad :
              RowKeyIn(LoadedSheet, q) = k => q <= existingRows[k]
    /\ \A n \in LogOf("update") : log[n].row \notin ShadowedRows
    /\ \A r \in ShadowedRows : worksheet[r] = LoadedSheet[r]

C28_Witness ==
  /\ IndexBuilt
  /\ pc = "done"
  /\ ShadowedRows # {}
  /\ \E n \in LogOf("update") : \E r \in ShadowedRows :
       /\ RowKeyIn(LoadedSheet, r) = log[n].key
       /\ log[n].row > r
       /\ worksheet[log[n].row] # LoadedSheet[log[n].row]
       /\ worksheet[r] = LoadedSheet[r]

\* C29: throughout a batch of upsertRows every row number in the index is a
\* data row that existed at load, and the row still shows the key it is
\* indexed under after the updates and appends made so far; an update goes
\* to a row whose key is the record's key.
C29_IndexStaysConsistentWithSheet ==
  IndexBuilt =>
    /\ \A k \in DOMAIN existingRows :
         /\ existingRows[k] > headerRow
         /\ existingRows[k] <= Len(LoadedSheet)
         /\ RowKeyIn(worksheet, existingRows[k]) = k
    /\ \A n \in LogOf("update") :
         RowKeyIn(worksheet, log[n].row) = Join(RecordKeyForms(log[n].rec))

C29_Witness ==
  /\ IndexBuilt
  /\ pc = "done"
  /\ Len(log) = 2
  /\ log[1].kind = "update"
  /\ log[2].kind = "update"
  /\ log[1].row = log[2].row
  /\ \E n \in 1..Len(keyColumns) :
       worksheet[log[1].row][ColumnOf(keyColumns[n])]
         # LoadedSheet[log[1].row][ColumnOf(keyColumns[n])]

\* C26: a record of upsertRows updates an existing row only if, for every key
\* column, the String() form of the record's value equals the String() form
\* of the row's cell in that column, also when a key value contains '|'.
C26_UpdateOnlyOnEqualKeyTuples ==
  IndexBuilt =>
    \A n \in LogOf("update") : RecordKeyForms(log[n].rec) = RowKeyForms(log[n].row)

\* The record has a non-empty value in at least one key column
NonBlankKey(rec) == \E n \in 1..Len(keyColumns) : RecordKeyForms(rec)[n] # ""

\* The second of two executions in succession has ended successfully
SecondRunDone ==
  /\ history # << >>
  /\ history[1].again
  /\ params.op = "upsertRows"
  /\ pc = "done"

\* C25: when upsertRows is run twice in succession with the same records on
\* the same sheet and every record has a non-empty value in at least one key
\* column, the second run reports rowsAppended = 0 and rowsUpdated = the
\* number of records, and leaves the sheet's row count as the first run
\* left it.
C25_SecondRunAppendsNothing ==
  ( /\ SecondRunDone
    /\ \A n \in 1..Len(resolved) : NonBlankKey(resolved[n]) ) =>
      /\ resolved = history[1].resolved
      /\ returnData[1].rowsAppended = 0
      /\ returnData[1].rowsUpdated = Len(resolved)
      /\ Len(remote[params.sheetName]) = Len(history[1].after[params.sheetName])

C25_Witness ==
  /\ SecondRunDone
  /\ Len(resolved) = 2
  /\ \A n \in 1..Len(resolved) : NonBlankKey(resolved[n])
  /\ resolved[1] # resolved[2]
  /\ history[1].returnData[1].rowsAppended >= 1
  /\ Len(history[1].after[params.sheetName]) > Len(history[1].before[params.sheetName])
  /\ returnData[1].rowsUpdated = 2

\* The key-column values of the record are all empty strings
AllEmptyKey(rec) ==
  \A n \in 1..Len(keyColumns) : Get(rec, keyColumns[n]) = S("")

\* The rows that records with an all-empty key got in the execution before
EmptyKeyRowsBefore ==
  IF history = << >> THEN {}
  ELSE {history[1].log[n].row : n \in {m \in 1..Len(history[1].log) :
                                          AllEmptyKey(history[1].log[m].rec)}}

\* C30: in upsertRows a record whose key-column values are all empty strings
\* is not rejected by the key validation and is appended, never matched; a
\* successful invocation grows the sheet by at least one row per such record,
\* and in a later invocation the row such a record got is not in the index,
\* is updated by no record and keeps its cells.
C30_EmptyKeyRecordAlwaysAppended ==
  IndexBuilt =>
    /\ \A n \in 1..Len(log) : AllEmptyKey(log[n].rec) => log[n].kind = "append"
    /\ (pc = "failed" /\ error \in {MissingKeyValue(k) : k \in ColNames \cup {"Zed"}})
         => ~AllEmptyKey(rowsToAdd[j])
    /\ (pc = "done") =>
         Len(remote[params.sheetName]) >=
           Len(remote0[params.sheetName])
             + Cardinality({n \in 1..Len(log) : AllEmptyKey(log[n].rec)})
    /\ \A r \in EmptyKeyRowsBefore :
         /\ \A k \in DOMAIN existingRows : existingRows[k] # r
         /\ \A n \in LogOf("update") : log[n].row # r
         /\ worksheet[r] = remote0[params.sheetName][r]

C30_Witness ==
  /\ SecondRunDone
  /\ EmptyKeyRowsBefore # {}
  /\ \E n \in LogOf("append") :
       /\ AllEmptyKey(log[n].rec)
       /\ \E r \in EmptyKeyRowsBefore :
            /\ log[n].row > r
            /\ remote[params.sheetName][r] = history[1].after[params.sheetName][r]
  /\ LogOf("update") # {}

\* The execution runs the operation `o` of the resource `r`
Running(r, o) == params.resource = r /\ params.operation = o

\* The execution has left the handler's body behind
PastBody(handler) ==
  pc \in {handler \o ":save", "done", "failed"}

\* C21: deleteSheet raises an error without calling removeWorksheet or
\* saveWorkbook when the named sheet does not exist or the workbook has only
\* one sheet; after any sequence of deleteSheet executions a file that had a
\* sheet still has one; a successful execution removes exactly the named
\* sheet and leaves the others as they were.
C21_DeleteSheetKeepsLastSheet ==
  Running("sheet", "deleteSheet") =>
    /\ ( /\ PastBody("deleteSheet")
         /\ \/ params.sheetName \notin DOMAIN remote0
            \/ Cardinality(DOMAIN remote0) <= 1 ) =>
           /\ pc = "failed"
           /\ error \in {SheetNotFound(params.sheetName), LastSheet, DownloadFailed}
           /\ "removeWorksheet" \notin StepsTaken
           /\ "saveWorkbook" \notin StepsTaken
           /\ remote = remote0
    /\ (\A n \in 1..Len(history) : history[n].operation = "deleteSheet")
         => DOMAIN remote # {}
    /\ (pc = "done") =>
         /\ params.sheetName \in DOMAIN remote0
         /\ DOMAIN remote = DOMAIN remote0 \ {params.sheetName}
         /\ \A n \in DOMAIN remote : remote[n] = remote0[n]

C21_Witness ==
  /\ Running("sheet", "deleteSheet")
  /\ Len(history) = 1
  /\ history[1].operation = "deleteSheet"
  /\ history[1].ok
  /\ pc = "failed"
  /\ error = LastSheet
  /\ DOMAIN remote = {"Sheet1"}
  /\ params.sheetName = "Sheet1"

\* C22: addSheet rejects an empty or whitespace-only name before the
\* workbook is loaded, and rejects a name the workbook already has without
\* adding a sheet or saving; a sheet is only ever added under a name the
\* workbook does not have, and a successful execution leaves the file with
\* exactly one sheet more, the others as they were.
C22_AddSheetKeepsNamesDistinct ==
  Running("workbook", "addSheet") =>
    /\ (pc # "router" /\ pc # "addSheet" /\ params.newSheetName \in {"", " "}) =>
         /\ pc = "failed"
         /\ error = SheetNameEmpty
         /\ loadCalls = 0
         /\ steps = << >>
         /\ remote = remote0
    /\ (PastBody("addSheet") /\ params.newSheetName \in DOMAIN remote0) =>
         /\ pc = "failed"
         /\ error \in {SheetExists(params.newSheetName), DownloadFailed}
         /\ "addWorksheet" \notin StepsTaken
         /\ "saveWorkbook" \notin StepsTaken
         /\ remote = remote0
    /\ ("addWorksheet" \in StepsTaken) => params.newSheetName \notin DOMAIN remote0
    /\ (pc = "done") =>
         /\ Cardinality(DOMAIN remote) = Cardinality(DOMAIN remote0) + 1
         /\ DOMAIN remote = DOMAIN remote0 \cup {params.newSheetName}
         /\ \A n \in DOMAIN remote0 : remote[n] = remote0[n]

C22_Witness ==
  /\ Running("workbook", "addSheet")
  /\ Len(history) = 1
  /\ history[1].operation = "addSheet"
  /\ history[1].ok
  /\ pc = "failed"
  /\ error = SheetExists("Data")
  /\ loadCalls = 1
  /\ DOMAIN remote = {"Sheet1", "Data"}

\* The operations that only read
ReadOperations ==
  {"getSheets", "readRows", "getWorkbooks", "getColumns", "getTableRows", "lookup"}

\* The operations that write the workbook back
SaveOperations ==
  {"appendRows", "updateCell", "upsertRows", "clearSheet", "deleteSheet", "addSheet"}

\* C23: no step of getSheets, readRows, getWorkbooks, getColumns,
\* getTableRows or lookup calls saveWorkbook or changes the stored file; a
\* step that calls saveWorkbook belongs to appendRows, updateCell,
\* upsertRows, clearSheet, deleteSheet or addSheet.
C23_ReadOperationsNeverSave ==
  [][ /\ (params.operation \in ReadOperations) =>
           /\ remote' = remote
           /\ saveCalls' = saveCalls
           /\ saveCalls = 0
           /\ "saveWorkbook" \notin {steps'[n] : n \in 1..Len(steps')}
      /\ (saveCalls' > saveCalls) => params.operation \in SaveOperations ]_vars

C23_Witness ==
  /\ Len(history) = 1
  /\ history[1].operation = "clearSheet"
  /\ history[1].ok
  /\ Running("sheet", "readRows")
  /\ pc = "done"
  /\ loadCalls = 1
  /\ saveCalls = 0
  /\ remote = remote0
  /\ remote["Sheet1"] = << >>

\* The errors the router raises for a pair it has no handler for
UnknownErrors ==
  {router(r, o).err : r \in {"sheet", "table", "workbook", "chart"},
                      o \in UNION {Offered[q] : q \in DOMAIN Offered}} \ {""}

\* C24: the router dispatches every pair the node offers to a handler,
\* the workbook operation getWorkbookSheets included, and raises an
\* 'Unknown ... operation' or 'Unknown resource' error exactly for the pairs
\* outside the offered lists.
C24_EveryOfferedPairRouted ==
  (pc # "router") =>
    ( (pc = "failed" /\ error \in UnknownErrors /\ steps = << >>)
        <=> ~( /\ params.resource \in DOMAIN Offered
               /\ params.operation \in Offered[params.resource] ) )

====
